---- MODULE Spec2Model ----
(***************************************************************************)
(* Runtime-capability analysis (RCA) of the Q# compiler: the capability    *)
(* checker (qsc_passes/capabilitiesck.rs), the cycle detector              *)
(* (qsc_rca/cycle_detection.rs), the analyzer driver (qsc_rca/analyzer.rs, *)
(* qsc_rca/rca.rs, qsc_rca/core.rs) and the write-once store               *)
(* (qsc_rca/scaffolding.rs, qsc_data_structures/index_map.rs).             *)
(*                                                                         *)
(* The specifications share the variables:                                 *)
(*   SpecCk    - check_supported_capabilities over a package and a store   *)
(*   Spec      - Analyzer::new followed by update_package_compute_...      *)
(*   SpecStore - the insert operations of the store, called freely         *)
(*   SpecTb    - the constructors of a specialization's table, each applied *)
(*               to a callable drawn from a bounded set of signatures      *)
(*   SpecRs    - CycleDetector::resolve_callee applied to a callee          *)
(*               expression drawn from bounded chains of functors          *)
(*   SpecCx    - analyze_all and analyze_package of qsc_rca/core.rs with    *)
(*               their stack of analysis contexts                          *)
(*   SpecMg    - the merge of the application instances of a specialization *)
(*               into the store (save_application_generator_sets)          *)
(*   SpecSai   - the operations of rca.rs on the application instances of a *)
(*               specialization, called freely                             *)
(*   SpecAi    - the visit of one application instance's body by the        *)
(*               expression analysis of qsc_rca/core.rs                    *)
(***************************************************************************)
EXTENDS Integers, Sequences, FiniteSets, TLC

VARIABLES
    \* ---- capability checker (Checker, capabilitiesck.rs:94-99)
    ck_package,     \* the statements of the package in source order; element i is
                    \* the store's table of statement i and the block it is in
    ck_target,      \* Checker::target_capabilities
    ck_errors,      \* Checker::errors
    ck_pos,         \* the next statement the visitor hands to visit_stmt
    ck_pc,          \* "visit" while run() walks the package, "done" once it returned
    \* ---- analyzer
    program,        \* the package store under analysis: package id -> items
    phase,          \* where Analyzer::new / update_package_compute_properties is
    mode,           \* [op |-> "new" | "update", pkg |-> the package being updated]
    cd,             \* the CycleDetector of the package being scanned
    pending,        \* specializations_with_cycles not yet pre-seeded
    reported,       \* every specialization cycle detection reported in this run
    scaffolding,    \* PackageStoreScaffolding
    compute_properties, \* Analyzer::compute_properties
    an,             \* the main analysis: package, item and stack of specializations
    snapshot,       \* compute_properties when the last update began (history)
    updates,        \* number of updates performed
    \* ---- construction of one specialization's table
    tb_decl,        \* the callable and the specialization the table is built for
    tb_table,       \* the table built, and by which constructor
    \* ---- resolution of one callee expression by the cycle detector
    rs_expr,        \* the callee expression of a call
    rs_callee,      \* what resolve_callee returned for it ("Pending" before the call)
    \* ---- the driver of core.rs
    cx,             \* core::Analyzer: active_contexts, the specializations that
                    \* have a table, and where analyze_all / analyze_package is
    \* ---- the merge of the application instances of one specialization
    mg,             \* the closed instances, the package compute properties they
                    \* are saved to, and whether the merge ran or aborted
    \* ---- the application instances of one specialization (rca.rs)
    sai,            \* SpecApplicationInstances, the main block's entry in the
                    \* scaffolding and whether the specialization's table is inserted
    \* ---- the analysis of one application instance's body (core.rs)
    ai              \* the body, the ApplicationInstance (locals_map, exprs,
                    \* active_dynamic_scopes) and the visits still to run

ckVars == <<ck_package, ck_target, ck_errors, ck_pos, ck_pc>>
rcaVars == <<program, phase, mode, cd, pending, reported, scaffolding,
             compute_properties, an, snapshot, updates>>
tbVars == <<tb_decl, tb_table>>
rsVars == <<rs_expr, rs_callee>>
cxVars == <<cx>>
mgVars == <<mg>>
saiVars == <<sai>>
aiVars == <<ai>>
exVars == <<rsVars, cxVars, mgVars, saiVars, aiVars>>
exceptCk == <<rcaVars, tbVars, exVars>>
exceptRca == <<ckVars, tbVars, exVars>>
exceptTb == <<ckVars, rcaVars, exVars>>
exceptRs == <<ckVars, rcaVars, tbVars, cxVars, mgVars, saiVars, aiVars>>
exceptCx == <<ckVars, rcaVars, tbVars, rsVars, mgVars, saiVars, aiVars>>
exceptMg == <<ckVars, rcaVars, tbVars, rsVars, cxVars, saiVars, aiVars>>
exceptSai == <<ckVars, rcaVars, tbVars, rsVars, cxVars, mgVars, aiVars>>
exceptAi == <<ckVars, rcaVars, tbVars, rsVars, cxVars, mgVars, saiVars>>
vars == <<ck_package, ck_target, ck_errors, ck_pos, ck_pc,
          program, phase, mode, cd, pending, reported, scaffolding,
          compute_properties, an, snapshot, updates, tb_decl, tb_table,
          rs_expr, rs_callee, cx, mg, sai, ai>>

(***************************************************************************)
(* Bounds of the model.                                                    *)
(***************************************************************************)
MaxStmts == 2       \* statements of the package handed to the checker
MaxDepth == 5       \* frames of the main analysis before the native stack is exhausted
MaxUpdates == 1     \* incremental updates after construction
MaxParams == 2      \* input parameters of a callable whose table is constructed
MaxFunctors == 4    \* functors applied to the callee of a call
MaxInstances == 2   \* application instances of a specialization whose operations
                    \* are called freely (the inherent one and one per parameter)

(***************************************************************************)
(* Runtime features and runtime capabilities.                              *)
(***************************************************************************)
\* The features the checker turns into diagnostics, in the order of the
\* `if` chain of generate_errors_from_runtime_features.
ErrorOrder ==
    << "UseOfDynamicBool", "UseOfDynamicInt", "UseOfDynamicPauli",
       "UseOfDynamicRange", "UseOfDynamicDouble", "UseOfDynamicallySizedArray",
       "CyclicFunctionUsesDynamicArg" >>

\* Features of the model: the seven above and three that have no diagnostic.
RuntimeFeatureFlags ==
    { ErrorOrder[i] : i \in 1..Len(ErrorOrder) }
        \cup { "ForwardBranchingOnDynamicValue", "CallToDynamicCallee",
               "CycledOperationSpecializationApplication" }

RuntimeCapabilityFlags ==
    { "ForwardBranching", "IntegerComputations", "FloatingPointComputations",
      "HigherLevelConstructs" }

\* RuntimeFeatureFlags::runtime_capabilities for one flag.
FeatureCapabilities(f) ==
    CASE f = "UseOfDynamicBool" -> {"ForwardBranching"}
      [] f = "ForwardBranchingOnDynamicValue" -> {"ForwardBranching"}
      [] f = "UseOfDynamicInt" -> {"IntegerComputations"}
      [] f = "UseOfDynamicPauli" -> {"IntegerComputations"}
      [] f = "UseOfDynamicRange" -> {"IntegerComputations"}
      [] f = "UseOfDynamicDouble" -> {"FloatingPointComputations"}
      [] OTHER -> {"HigherLevelConstructs"}

\* RuntimeFeatureFlags::runtime_capabilities: the capabilities a set of features needs.
runtime_capabilities(features) ==
    UNION { FeatureCapabilities(f) : f \in features }

\* RuntimeFeatureFlags::contributing_features: the features of the set that
\* need one of the given capabilities.
contributing_features(features, capabilities) ==
    { f \in features : FeatureCapabilities(f) \cap capabilities # {} }

(***************************************************************************)
(* Compute kinds and tables as the checker reads them.                     *)
(***************************************************************************)
Classical == [kind |-> "Classical", runtime_features |-> {}]
Quantum(features) == [kind |-> "Quantum", runtime_features |-> features]

\* The inherent compute kinds the store of the model may hold for a statement:
\* every single feature, and the combinations the repository's tests produce.
StmtComputeKinds ==
    { Classical, Quantum({}) }
        \cup { Quantum({f}) : f \in RuntimeFeatureFlags }
        \cup { Quantum({"UseOfDynamicBool", "UseOfDynamicInt"}),
               Quantum({"UseOfDynamicBool", "UseOfDynamicDouble"}),
               Quantum({"UseOfDynamicBool", "UseOfDynamicInt",
                        "UseOfDynamicallySizedArray"}),
               Quantum({"UseOfDynamicBool", "UseOfDynamicInt",
                        "CyclicFunctionUsesDynamicArg"}),
               Quantum({"UseOfDynamicBool", "ForwardBranchingOnDynamicValue"}) }

\* The features a statement's application gains when a parameter of the callable
\* is dynamic (the parameter is a Bool read in a Double computation).
DynamicParamFeatures == {"UseOfDynamicBool", "UseOfDynamicDouble"}
\* ApplicationsTable of a statement of a callable with `params` input
\* parameters: the inherent compute kind and one entry per parameter, the
\* compute kind of the statement when that parameter is dynamic.
StmtTable(inherent, params) ==
    [inherent |-> inherent,
     dynamic_param_applications |->
         [p \in 1..params |->
             Quantum(inherent.runtime_features \cup DynamicParamFeatures)]]

\* Span { lo, hi }
Span(lo, hi) == [lo |-> lo, hi |-> hi]

\* The source text of the model's packages is the one of the checker's tests:
\* each statement is a binding `let b = <initializer>;` on a line of its own,
\* the first at FirstStmtLo..FirstStmtHi, the next after a line break and the
\* indentation; the initializer follows `let b = ` and ends before the `;`.
FirstStmtLo == 96
FirstStmtHi == 117
StmtIndent == 13
InitOffset == 8
\* Stmt::span of a statement
StmtSpan(stmt_id) ==
    LET shift == (stmt_id - 1) * ((FirstStmtHi - FirstStmtLo) + StmtIndent)
    IN  Span(FirstStmtLo + shift, FirstStmtHi + shift)
\* Expr::span of the initializer of a statement
InitSpan(stmt_id) ==
    Span(StmtSpan(stmt_id).lo + InitOffset, StmtSpan(stmt_id).hi - 1)

\* A statement of the package with its table in the store. `block` is 0 for
\* a statement of the callable's body block, and j for a statement of a block
\* nested in the expression of statement j (an if, while or block body).
CkStmt(inherent, block, params) ==
    [table |-> StmtTable(inherent, params), block |-> block]
\* The table of the enclosing statement aggregates the nested statement's
\* compute kind (the block's kind is the aggregate of its statements, and the
\* if or while expression aggregates its blocks).
WellNested(stmts, i) ==
    \/ stmts[i].block = 0
    \/ /\ stmts[i].block < i
       /\ stmts[stmts[i].block].block = 0
       /\ stmts[i].table.inherent.runtime_features
             \subseteq stmts[stmts[i].block].table.inherent.runtime_features
       /\ stmts[i].table.inherent.kind = "Quantum"
             => stmts[stmts[i].block].table.inherent.kind = "Quantum"
\* The statements are those of one callable, with no or one input parameter.
CkPackages(n) ==
    UNION { { stmts \in [1..n -> { CkStmt(c, b, params) :
                                      c \in StmtComputeKinds, b \in 0..(n - 1) }] :
                \A i \in 1..n : WellNested(stmts, i) } : params \in 0..1 }

(***************************************************************************)
(* The capability checker.                                                 *)
(***************************************************************************)
\* generate_errors_from_runtime_features: one error per feature of the `if`
\* chain that the set contains, in the order of the chain.
generate_errors_from_runtime_features_Reversed(runtime_features, span) ==
    LET hit == SelectSeq(ErrorOrder, LAMBDA k : k \in runtime_features)
    IN  [i \in 1..Len(hit) |-> [kind |-> hit[Len(hit) + 1 - i], span |-> span]]

generate_errors_from_runtime_features(runtime_features, span) ==
    LET hit == SelectSeq(ErrorOrder, LAMBDA k : k \in runtime_features)
    IN  [i \in 1..Len(hit) |-> [kind |-> hit[i], span |-> span]]

\* `!self.target_capabilities & runtime_capabilities`
MissingCapabilities_NoComplement(target_capabilities, capabilities) ==
    target_capabilities \cap capabilities

MissingCapabilities(target_capabilities, capabilities) ==
    capabilities \ target_capabilities

\* the features handed to generate_errors_from_runtime_features
MissingFeatures_All(quantum_properties, target_capabilities) ==
    quantum_properties.runtime_features

MissingFeatures(quantum_properties, target_capabilities) ==
    LET caps == runtime_capabilities(quantum_properties.runtime_features)
        missing_capabilities == MissingCapabilities(target_capabilities, caps)
    IN  contributing_features(quantum_properties.runtime_features,
                              missing_capabilities)

\* Checker::visit_stmt: the errors one statement appends.
visit_stmt_UsesParams(stmt_id) ==
    LET table == ck_package[stmt_id].table
        compute_kind == IF table.dynamic_param_applications = << >>
                        THEN table.inherent
                        ELSE table.dynamic_param_applications[1]
    IN  IF compute_kind.kind # "Quantum"
        THEN << >>
        ELSE generate_errors_from_runtime_features(
                 MissingFeatures(compute_kind, ck_target), StmtSpan(stmt_id))

visit_stmt_InitSpan(stmt_id) ==
    LET compute_kind == ck_package[stmt_id].table.inherent
    IN  IF compute_kind.kind # "Quantum"
        THEN << >>
        ELSE generate_errors_from_runtime_features(
                 MissingFeatures(compute_kind, ck_target), InitSpan(stmt_id))

visit_stmt(stmt_id) ==
    LET compute_kind == ck_package[stmt_id].table.inherent
    IN  IF compute_kind.kind # "Quantum"
        THEN << >>
        ELSE generate_errors_from_runtime_features(
                 MissingFeatures(compute_kind, ck_target), StmtSpan(stmt_id))

\* The next statement the walk of the package hands to visit_stmt: the
\* statements of the body block in order. visit_stmt does not walk into the
\* statement, so the blocks inside its expressions are not reached.
NextStmt(pos) ==
    LET rest == { i \in pos..Len(ck_package) : ck_package[i].block = 0 }
    IN  IF rest = {} THEN Len(ck_package) + 1
        ELSE CHOOSE i \in rest : \A j \in rest : i <= j

CkInit ==
    /\ \E n \in 0..MaxStmts : ck_package \in CkPackages(n)
    /\ ck_target \in SUBSET RuntimeCapabilityFlags
    /\ ck_errors = << >>
    /\ ck_pos = 1
    /\ ck_pc = "visit"

CkIdle ==
    /\ ck_package = << >>
    /\ ck_target = {}
    /\ ck_errors = << >>
    /\ ck_pos = 1
    /\ ck_pc = "idle"

\* The visitor reaches the next statement of the package and calls visit_stmt.
CkVisitStmt ==
    /\ ck_pc = "visit"
    /\ NextStmt(ck_pos) <= Len(ck_package)
    /\ ck_errors' = ck_errors \o visit_stmt(NextStmt(ck_pos))
    /\ ck_pos' = NextStmt(ck_pos) + 1
    /\ UNCHANGED <<ck_package, ck_target, ck_pc>>
    /\ UNCHANGED exceptCk

\* Checker::run returns self.errors.
CkReturn ==
    /\ ck_pc = "visit"
    /\ NextStmt(ck_pos) > Len(ck_package)
    /\ ck_pc' = "done"
    /\ UNCHANGED <<ck_package, ck_target, ck_errors, ck_pos>>
    /\ UNCHANGED exceptCk


(***************************************************************************)
(* The program representation (FIR): packages, items, specializations,     *)
(* statements, patterns and expressions.                                   *)
(***************************************************************************)
PackageIds == {0, 1}
SpecKindSeq == << "Body", "Adj", "Ctl", "CtlAdj" >>
SpecKinds == { SpecKindSeq[i] : i \in 1..4 }
ArgNames == << "a", "b", "c" >>

\* Expressions: every node has the same fields; `e` is the ExprKind.
Node(kind, subs) == [e |-> kind, sub |-> subs, item |-> <<0, 0>>, var |-> "", functor |-> ""]
Lit == Node("Lit", << >>)
\* ExprKind::Var(Res::Item(ItemId { package, item }))
VarItem(p, i) == [e |-> "VarItem", sub |-> << >>, item |-> <<p, i>>, var |-> "", functor |-> ""]
\* ExprKind::Var(Res::Local(node))
VarLocal(v) == [e |-> "VarLocal", sub |-> << >>, item |-> <<0, 0>>, var |-> v, functor |-> ""]
\* ExprKind::UnOp(UnOp::Functor(f), operand)
Functor(f, x) == [e |-> "UnOp", sub |-> <<x>>, item |-> <<0, 0>>, var |-> "", functor |-> f]
\* ExprKind::Call(callee, args)
Call(callee, args) == Node("Call", <<callee, args>>)
Tuple(xs) == Node("Tuple", xs)
Return(x) == Node("Return", <<x>>)
\* ExprKind::Closure(captures, item): the lambda lifted to item `i` of package 1
Closure(i) == [e |-> "Closure", sub |-> << >>, item |-> <<1, i>>, var |-> "", functor |-> ""]

\* Patterns and statements.
Bind(v) == [p |-> "Bind", var |-> v]
\* the tuple pattern (f, _): `var` is the name its first element binds
TuplePat == [p |-> "Tuple", var |-> "f"]
Discard == [p |-> "Discard", var |-> ""]
Expr(x) == [kind |-> "Expr", pat |-> Discard, expr |-> x]
Semi(x) == [kind |-> "Semi", pat |-> Discard, expr |-> x]
Local(pat, x) == [kind |-> "Local", pat |-> pat, expr |-> x]

\* A specialization declaration: `input` tells whether it has its own input
\* pattern (the controls of a controlled specialization).
NoSpec == [exists |-> FALSE, input |-> FALSE, block |-> << >>]
SpecDecl(hasInput, stmts) == [exists |-> TRUE, input |-> hasInput, block |-> stmts]

\* Items. `params` is the number of flattened input parameters, `unit` tells
\* whether the output type is Unit.
Namespace ==
    [kind |-> "Namespace", intrinsic |-> FALSE, params |-> 0, unit |-> TRUE,
     specs |-> [k \in SpecKinds |-> NoSpec]]
Intrinsic(kind, n, unit) ==
    [kind |-> kind, intrinsic |-> TRUE, params |-> n, unit |-> unit,
     specs |-> [k \in SpecKinds |-> NoSpec]]
Callable(kind, n, unit, body, adj, ctl, ctladj) ==
    [kind |-> kind, intrinsic |-> FALSE, params |-> n, unit |-> unit,
     specs |-> [k \in SpecKinds |->
                  CASE k = "Body" -> body [] k = "Adj" -> adj
                    [] k = "Ctl" -> ctl [] OTHER -> ctladj]]
Function(n, unit, stmts) ==
    Callable("Function", n, unit, SpecDecl(FALSE, stmts), NoSpec, NoSpec, NoSpec)
Operation(n, unit, stmts) ==
    Callable("Operation", n, unit, SpecDecl(FALSE, stmts), NoSpec, NoSpec, NoSpec)

(***************************************************************************)
(* The programs of the model. Package 0 is a library, package 1 the user's *)
(* code; Foo is item 1 and Bar item 2 of package 1.                        *)
(***************************************************************************)
Foo == VarItem(1, 1)
Bar == VarItem(1, 2)
M == VarItem(0, 2)
LibId == VarItem(0, 3)
a == VarLocal("a")

\* namespace; operation M(q : Qubit) : Result (intrinsic);
\* function LibId(i : Int) : Int { i }
LibPlain ==
    << Namespace, Intrinsic("Operation", 1, FALSE), Function(1, FALSE, <<Expr(a)>>) >>
\* ... and function LibRec(i : Int) : Int { LibRec(i) }
LibCyclic ==
    LibPlain \o << Function(1, FALSE, <<Expr(Call(VarItem(0, 4), a))>>) >>
LibPackages == { LibPlain, LibCyclic }

UserPackages ==
    { \* function Foo(i : Int) : Int { Foo(i) }
      << Function(1, FALSE, <<Expr(Call(Foo, a))>>) >>,
      \* function Foo() : Int { Foo() }
      << Function(0, FALSE, <<Expr(Call(Foo, Tuple(<< >>)))>>) >>,
      \* function Foo(p : Pauli, s : String[], t : (Range, BigInt)) : Unit { Foo(p, s, t); }
      << Function(3, TRUE, <<Semi(Call(Foo, Tuple(<<a, VarLocal("b"), VarLocal("c")>>)))>>) >>,
      \* function Foo(i : Int) : Int { Bar(i) }  function Bar(i : Int) : Int { Foo(i) }
      << Function(1, FALSE, <<Expr(Call(Bar, a))>>),
         Function(1, FALSE, <<Expr(Call(Foo, a))>>) >>,
      \* function Foo(i : Int) : Int { Bar(i) }  function Bar(i : Int) : Int { LibId(i) }
      << Function(1, FALSE, <<Expr(Call(Bar, a))>>),
         Function(1, FALSE, <<Expr(Call(LibId, a))>>) >>,
      \* function Foo(i : Int) : Int { let f = Foo; f(i) }
      << Function(1, FALSE, <<Local(Bind("f"), Foo), Expr(Call(VarLocal("f"), a))>>) >>,
      \* function Foo(i : Int) : Int { let f = Foo; let g = f; g(i) }
      << Function(1, FALSE, <<Local(Bind("f"), Foo), Local(Bind("g"), VarLocal("f")),
                              Expr(Call(VarLocal("g"), a))>>) >>,
      \* function Foo(i : Int) : Int { let (f, _) = (Foo, 0); f(i) }
      << Function(1, FALSE, <<Local(TuplePat, Tuple(<<Foo, Lit>>)),
                              Expr(Call(VarLocal("f"), a))>>) >>,
      \* function Foo(i : Int) : Int { let out = Foo(i); return out; }
      << Function(1, FALSE, <<Local(Bind("out"), Call(Foo, a)),
                              Semi(Return(VarLocal("out")))>>) >>,
      \* namespace N {}  operation Foo(q : Qubit) : Result { M(q) }
      << Operation(1, FALSE, <<Expr(Call(M, a))>>), Namespace >>,
      \* operation Foo(q : Qubit) : Unit { Foo(q); }
      << Operation(1, TRUE, <<Semi(Call(Foo, a))>>) >>,
      \* operation Foo(q : Qubit) : Result { Foo(q) }
      << Operation(1, FALSE, <<Expr(Call(Foo, a))>>) >>,
      \* operation Foo(q : Qubit) : Unit is Adj { body ... { Adjoint Foo(q); } adjoint ... { Foo(q); } }
      << Callable("Operation", 1, TRUE,
                  SpecDecl(FALSE, <<Semi(Call(Functor("Adj", Foo), a))>>),
                  SpecDecl(FALSE, <<Semi(Call(Foo, a))>>), NoSpec, NoSpec) >>,
      \* operation Foo(q : Qubit) : Unit is Ctl { body ... { Controlled Foo([], q); }
      \*                                          controlled (_, ...) { Foo(q); } }
      << Callable("Operation", 1, TRUE,
                  SpecDecl(FALSE, <<Semi(Call(Functor("Ctl", Foo), Tuple(<<Lit, a>>)))>>),
                  NoSpec, SpecDecl(TRUE, <<Semi(Call(Foo, a))>>), NoSpec) >>,
      \* operation Foo(q : Qubit) : Unit is Adj + Ctl { body ... {} adjoint ... {}
      \*     controlled (cs, ...) {}
      \*     controlled adjoint (cs, ...) { Controlled Adjoint Foo(cs, q); } }
      << Callable("Operation", 1, TRUE,
                  SpecDecl(FALSE, << >>), SpecDecl(FALSE, << >>), SpecDecl(TRUE, << >>),
                  SpecDecl(TRUE, <<Semi(Call(Functor("Ctl", Functor("Adj", Foo)),
                                             Tuple(<<Lit, a>>)))>>)) >>,
      \* operation Foo(q : Qubit) : Unit is Adj + Ctl { body ... {} adjoint ... {}
      \*     controlled (cs, ...) { Controlled Adjoint Foo(cs, q); }
      \*     controlled adjoint (cs, ...) {} }
      << Callable("Operation", 1, TRUE,
                  SpecDecl(FALSE, << >>), SpecDecl(FALSE, << >>),
                  SpecDecl(TRUE, <<Semi(Call(Functor("Ctl", Functor("Adj", Foo)),
                                             Tuple(<<Lit, a>>)))>>),
                  SpecDecl(TRUE, << >>)) >>,
      \* function Foo(i : Int) : Int { return Foo(i); }
      << Function(1, FALSE, <<Semi(Return(Call(Foo, a)))>>) >>,
      \* function Foo(i : Int) : Int { let (r, _) = (Foo(i), 0); ... }, the tuple
      \* as the expression of a statement
      << Function(1, FALSE, <<Semi(Tuple(<<Call(Foo, a), Lit>>))>>) >>,
      \* function Foo(i : Int) : Int { if i == 0 { Foo(i) } else { 0 } }
      << Function(1, FALSE, <<Expr(Node("If", <<Lit, Call(Foo, a), Lit>>))>>) >>,
      \* function Foo(i : Int) : Unit { while i == 0 { Foo(i); } }
      << Function(1, TRUE, <<Semi(Node("While", <<Lit, Call(Foo, a)>>))>>) >>,
      \* function Foo(i : Int) : Int { let f = () -> Foo(0); f() }, the lambda
      \* lifted to item 2: function lambda() : Int { Foo(0) }
      << Function(1, FALSE, <<Local(Bind("f"), Closure(2)),
                              Expr(Call(VarLocal("f"), Tuple(<< >>)))>>),
         Function(0, FALSE, <<Expr(Call(Foo, Lit))>>) >>
    }

Programs == { [p \in PackageIds |-> IF p = 0 THEN lib ELSE user] :
                lib \in LibPackages, user \in UserPackages }

(***************************************************************************)
(* Identifiers. A block is named by its specialization, a statement by its *)
(* block and position; each statement holds one top-level expression.      *)
(***************************************************************************)
ItemIds(p) == 1..Len(program[p])
BlockIds(p) ==
    { <<i, k>> : i \in ItemIds(p), k \in SpecKinds }
StmtIds(p) ==
    UNION { { <<b[1], b[2], n>> : n \in 1..Len(program[p][b[1]].specs[b[2]].block) } :
            b \in BlockIds(p) }
\* The blocks the package declares.
DeclaredBlocks(p) == { b \in BlockIds(p) : program[p][b[1]].specs[b[2]].exists }
GlobalSpecId(p, i, k) == [package |-> p, item |-> i, kind |-> k]
SpecBlock(id) == program[id.package][id.item].specs[id.kind].block

(***************************************************************************)
(* Compute properties and applications tables (rca.rs).                    *)
(***************************************************************************)
EmptyProperties == [runtime_features |-> {}, dynamism_sources |-> {}]
NoTable ==
    [tag |-> "None", inherent_properties |-> EmptyProperties,
     dynamic_params_properties |-> << >>]
ApplicationsTable(inherent, dynamic_params) ==
    [tag |-> "Some", inherent_properties |-> inherent,
     dynamic_params_properties |-> dynamic_params]

(***************************************************************************)
(* The store under construction (scaffolding.rs). An IndexMap is a vector  *)
(* of optional values: here a function whose vacant slots hold NoTable (or *)
(* VacantItem).                                                            *)
(***************************************************************************)
VacantItem == [tag |-> "Vacant", specs |-> [k \in SpecKinds |-> NoTable]]
NonCallable == [tag |-> "NonCallable", specs |-> [k \in SpecKinds |-> NoTable]]
Specializations(specs) == [tag |-> "Specializations", specs |-> specs]

\* PackageScaffolding::default()
PackageScaffolding(p) ==
    [present |-> TRUE,
     items |-> [i \in ItemIds(p) |-> VacantItem],
     blocks |-> [b \in BlockIds(p) |-> NoTable],
     stmts |-> [t \in StmtIds(p) |-> NoTable],
     exprs |-> [t \in StmtIds(p) |-> NoTable]]
AbsentPackage(p) == [PackageScaffolding(p) EXCEPT !.present = FALSE]
EmptyStore == [p \in PackageIds |-> AbsentPackage(p)]
IsEmptyStore(store) == \A p \in PackageIds : ~store[p].present

\* PackageStoreScaffolding::initialize_packages
initialize_packages == [p \in PackageIds |-> PackageScaffolding(p)]

\* PackageStoreScaffolding::find_specialization (NoTable stands for None)
find_specialization_Forgets(store, id) == NoTable

find_specialization(store, id) ==
    IF ~store[id.package].present THEN NoTable
    ELSE LET item_scaffolding == store[id.package].items[id.item]
         IN  IF item_scaffolding.tag # "Specializations" THEN NoTable
             ELSE item_scaffolding.specs[id.kind]

\* IndexMap::insert: `self.values[index] = Some(value)`
IndexMapInsert(map, key, value) == [map EXCEPT ![key] = value]

\* PackageStoreScaffolding::insert_item; ok is FALSE when the call panics.
insert_item(store, p, i, value) ==
    IF ~store[p].present THEN [ok |-> FALSE, store |-> store]
    ELSE [ok |-> TRUE,
          store |-> [store EXCEPT ![p].items = IndexMapInsert(@, i, value)]]

\* PackageStoreScaffolding::insert_spec; ok is FALSE when the call panics.
insert_spec(store, id, value) ==
    IF ~store[id.package].present THEN [ok |-> FALSE, store |-> store]
    ELSE LET item_scaffolding == store[id.package].items[id.item]
         IN  CASE item_scaffolding.tag = "Specializations" ->
                    [ok |-> TRUE,
                     store |-> [store EXCEPT ![id.package].items[id.item].specs =
                                                IndexMapInsert(@, id.kind, value)]]
               [] item_scaffolding.tag = "NonCallable" ->
                    [ok |-> FALSE, store |-> store]
               [] OTHER ->
                    [ok |-> TRUE,
                     store |-> [store EXCEPT ![id.package].items =
                                  IndexMapInsert(@, id.item,
                                      Specializations(
                                          IndexMapInsert(VacantItem.specs, id.kind, value)))]]

\* The inserts of SpecApplicationInstances::flush_compute_properties.
insert_block(store, p, block_id, value) ==
    [store EXCEPT ![p].blocks = IndexMapInsert(@, block_id, value)]
insert_stmt(store, p, stmt_id, value) ==
    [store EXCEPT ![p].stmts = IndexMapInsert(@, stmt_id, value)]
insert_expr(store, p, expr_id, value) ==
    [store EXCEPT ![p].exprs = IndexMapInsert(@, expr_id, value)]

(***************************************************************************)
(* The final result (PackageStoreComputeProperties) and the conversions    *)
(* between it and the scaffolding.                                         *)
(***************************************************************************)
VacantProperties ==
    [tag |-> "Vacant", body |-> NoTable, adj |-> NoTable, ctl |-> NoTable,
     ctl_adj |-> NoTable]
\* From<SpecializationsScaffolding> for CallableComputeProperties
CallableComputeProperties(specs) ==
    [tag |-> "Callable", body |-> specs["Body"], adj |-> specs["Adj"],
     ctl |-> specs["Ctl"], ctl_adj |-> specs["CtlAdj"]]
\* From<ItemScaffolding> for ItemComputeProperties
ItemComputeProperties(item_scaffolding) ==
    CASE item_scaffolding.tag = "NonCallable" ->
            [VacantProperties EXCEPT !.tag = "NonCallable"]
      [] item_scaffolding.tag = "Specializations" ->
            CallableComputeProperties(item_scaffolding.specs)
      [] OTHER -> VacantProperties
\* `body.expect("body should exist")`
ConversionPanics(item_scaffolding) ==
    /\ item_scaffolding.tag = "Specializations"
    /\ item_scaffolding.specs["Body"].tag = "None"
\* From<CallableComputeProperties> for SpecializationsScaffolding
SpecializationsScaffolding(value) ==
    [k \in SpecKinds |->
        CASE k = "Body" -> value.body [] k = "Adj" -> value.adj
          [] k = "Ctl" -> value.ctl [] OTHER -> value.ctl_adj]
\* From<ItemComputeProperties> for ItemScaffolding
ItemScaffolding_DropsNonCallable(value) ==
    CASE value.tag = "Callable" -> Specializations(SpecializationsScaffolding(value))
      [] OTHER -> VacantItem

ItemScaffolding(value) ==
    CASE value.tag = "NonCallable" -> NonCallable
      [] value.tag = "Callable" -> Specializations(SpecializationsScaffolding(value))
      [] OTHER -> VacantItem

\* PackageStoreScaffolding::flush: the compute properties it produces.
flush(store) ==
    [p \in PackageIds |->
        [present |-> store[p].present,
         items |-> [i \in ItemIds(p) |-> ItemComputeProperties(store[p].items[i])],
         blocks |-> store[p].blocks,
         stmts |-> store[p].stmts,
         exprs |-> store[p].exprs]]
FlushPanics(store) ==
    \E p \in PackageIds : \E i \in ItemIds(p) :
        store[p].present /\ ConversionPanics(store[p].items[i])

\* PackageStoreScaffolding::take: the scaffolding it produces.
take(properties) ==
    [p \in PackageIds |->
        [present |-> properties[p].present,
         items |-> [i \in ItemIds(p) |-> ItemScaffolding(properties[p].items[i])],
         blocks |-> properties[p].blocks,
         stmts |-> properties[p].stmts,
         exprs |-> properties[p].exprs]]

\* PackageComputeProperties::clear: every map of the package is emptied.
clear(properties, p) ==
    [properties EXCEPT ![p] = flush(initialize_packages)[p]]

(***************************************************************************)
(* Cycle detection (cycle_detection.rs).                                   *)
(***************************************************************************)
Vars == { ArgNames[i] : i \in 1..Len(ArgNames) } \cup { "f", "g", "out" }

FunctorApplication(adjoint, controlled) ==
    [adjoint |-> adjoint, controlled |-> controlled]
CallableSpecializationId(callable, functor_application) ==
    [callable |-> callable, functor_application |-> functor_application]
AllSpecializationIds(p) ==
    { CallableSpecializationId(i, FunctorApplication(adj, ctl)) :
        i \in ItemIds(p), adj \in BOOLEAN, ctl \in BOOLEAN }

\* The specialization a functor application selects (walk_callable_decl).
SpecKindOf(functor_application) ==
    IF ~functor_application.adjoint /\ ~functor_application.controlled THEN "Body"
    ELSE IF functor_application.adjoint /\ ~functor_application.controlled THEN "Adj"
    ELSE IF ~functor_application.adjoint /\ functor_application.controlled THEN "Ctl"
    ELSE "CtlAdj"

\* CallableVariable: what a node map knows of a variable.
AbsentVariable == [kind |-> "Absent", expr |-> Lit]
InputParam == [kind |-> "InputParam", expr |-> Lit]
LocalVariable(expr) == [kind |-> "Local", expr |-> expr]

\* derive_callable_input_map: the input parameters of the callable
derive_callable_input_map(callable_decl) ==
    [v \in Vars |->
        IF \E i \in 1..callable_decl.params : ArgNames[i] = v
        THEN InputParam ELSE AbsentVariable]

VacantNodeMap == [created |-> FALSE, vars |-> [v \in Vars |-> AbsentVariable]]

\* CycleDetector::new
NewCycleDetector(p) ==
    [package_id |-> p,
     item |-> 1,            \* the item visit_package hands to visit_item next
     walk |-> 1,            \* the next walk of visit_item for that item
     stack |-> << >>,       \* CallStack::stack, with the body walked and the position in it
     set |-> {},            \* CallStack::set
     node_maps |-> [id \in AllSpecializationIds(p) |-> VacantNodeMap],
     callables_with_cycles |-> {}]

NoCallee == [tag |-> "None", id |-> CallableSpecializationId(0, FunctorApplication(FALSE, FALSE))]
SomeCallee(id) == [tag |-> "Some", id |-> id]
CalleePanic == [NoCallee EXCEPT !.tag = "Panic"]

\* CycleDetector::resolve_callee, for the node map of the specialization on
\* top of the stack.
RECURSIVE resolve_callee_CtlToggles(_, _, _)
resolve_callee_CtlToggles(expr, package_id, node_map) ==
    CASE expr.e = "Closure" ->
            SomeCallee(CallableSpecializationId(expr.item[2], FunctorApplication(FALSE, FALSE)))
      [] expr.e = "UnOp" ->
            LET resolved_callee == resolve_callee_CtlToggles(expr.sub[1], package_id, node_map)
                fa == resolved_callee.id.functor_application
            IN  IF expr.functor \notin {"Adj", "Ctl"} THEN CalleePanic
                ELSE IF resolved_callee.tag # "Some" THEN resolved_callee
                ELSE SomeCallee(CallableSpecializationId(
                        resolved_callee.id.callable,
                        IF expr.functor = "Adj"
                        THEN FunctorApplication(~fa.adjoint, fa.controlled)
                        ELSE FunctorApplication(fa.adjoint, ~fa.controlled)))
      [] expr.e = "VarItem" ->
            IF expr.item[1] = package_id
            THEN SomeCallee(CallableSpecializationId(expr.item[2],
                                                     FunctorApplication(FALSE, FALSE)))
            ELSE NoCallee
      [] expr.e = "VarLocal" ->
            LET callable_variable == node_map.vars[expr.var]
            IN  CASE callable_variable.kind = "InputParam" -> NoCallee
                  [] callable_variable.kind = "Local" ->
                        resolve_callee_CtlToggles(callable_variable.expr, package_id, node_map)
                  [] OTHER -> CalleePanic
      [] OTHER -> CalleePanic

RECURSIVE resolve_callee(_, _, _)
resolve_callee(expr, package_id, node_map) ==
    CASE expr.e = "Closure" ->
            SomeCallee(CallableSpecializationId(expr.item[2], FunctorApplication(FALSE, FALSE)))
      [] expr.e = "UnOp" ->
            LET resolved_callee == resolve_callee(expr.sub[1], package_id, node_map)
                fa == resolved_callee.id.functor_application
            IN  IF expr.functor \notin {"Adj", "Ctl"} THEN CalleePanic
                ELSE IF resolved_callee.tag # "Some" THEN resolved_callee
                ELSE SomeCallee(CallableSpecializationId(
                        resolved_callee.id.callable,
                        IF expr.functor = "Adj"
                        THEN FunctorApplication(~fa.adjoint, fa.controlled)
                        ELSE FunctorApplication(fa.adjoint, TRUE)))
      [] expr.e = "VarItem" ->
            IF expr.item[1] = package_id
            THEN SomeCallee(CallableSpecializationId(expr.item[2],
                                                     FunctorApplication(FALSE, FALSE)))
            ELSE NoCallee
      [] expr.e = "VarLocal" ->
            LET callable_variable == node_map.vars[expr.var]
            IN  CASE callable_variable.kind = "InputParam" -> NoCallee
                  [] callable_variable.kind = "Local" ->
                        resolve_callee(callable_variable.expr, package_id, node_map)
                  [] OTHER -> CalleePanic
      [] OTHER -> CalleePanic

\* CycleDetector::walk_spec_decl on detector d: `decl` is the specialization
\* whose block is walked under the identifier.
walk_spec_decl_StackOnly(d, callable_specialization_id, decl) ==
    IF callable_specialization_id \in d.set
    THEN [d EXCEPT !.callables_with_cycles = @ \cup {callable_specialization_id}]
    ELSE [d EXCEPT
            !.stack = Append(@, [id |-> callable_specialization_id, decl |-> decl, pc |-> 1])]

walk_spec_decl(d, callable_specialization_id, decl) ==
    IF callable_specialization_id \in d.set
    THEN [d EXCEPT !.callables_with_cycles = @ \cup {callable_specialization_id}]
    ELSE [d EXCEPT
            !.node_maps[callable_specialization_id] =
                IF @.created THEN @
                ELSE [created |-> TRUE,
                      vars |-> derive_callable_input_map(
                                   program[d.package_id][callable_specialization_id.callable])],
            !.set = @ \cup {callable_specialization_id},
            !.stack = Append(@, [id |-> callable_specialization_id, decl |-> decl, pc |-> 1])]

\* CycleDetector::visit_item: the walks it starts, in order, each an
\* identifier and the specialization whose block is handed to walk_spec_decl.
visit_item_walks(item_id, item) ==
    LET id(adj, ctl) == CallableSpecializationId(item_id, FunctorApplication(adj, ctl))
    IN  <<[id |-> id(FALSE, FALSE), decl |-> "Body"]>>
        \o (IF item.specs["Adj"].exists
            THEN <<[id |-> id(TRUE, FALSE), decl |-> "Adj"]>> ELSE << >>)
        \o (IF item.specs["Ctl"].exists
            THEN <<[id |-> id(FALSE, TRUE), decl |-> "Ctl"]>> ELSE << >>)
        \o (IF item.specs["Ctl"].exists
            THEN <<[id |-> id(TRUE, TRUE), decl |-> "Ctl"]>> ELSE << >>)

\* CycleDetector::map_pat_to_expr, for the specialization on top of the stack
map_pat_to_expr(d, top, pat, expr) ==
    IF pat.p = "Bind"
    THEN [d EXCEPT !.node_maps[top.id].vars[pat.var] = LocalVariable(expr)]
    ELSE d

\* CycleDetector::visit_expr of a statement's expression; ok is FALSE when it panics.
visit_expr(d, top, expr) ==
    IF expr.e # "Call" THEN [ok |-> TRUE, d |-> d]
    ELSE LET callee == resolve_callee(expr.sub[1], d.package_id, d.node_maps[top.id])
             item == program[d.package_id][callee.id.callable]
             decl == SpecKindOf(callee.id.functor_application)
         IN  CASE callee.tag = "Panic" -> [ok |-> FALSE, d |-> d]
               [] callee.tag = "None" -> [ok |-> TRUE, d |-> d]
               [] OTHER ->
                    IF item.kind = "Namespace" THEN [ok |-> FALSE, d |-> d]
                    ELSE IF item.intrinsic THEN [ok |-> TRUE, d |-> d]
                    ELSE IF ~item.specs[decl].exists THEN [ok |-> FALSE, d |-> d]
                    ELSE [ok |-> TRUE, d |-> walk_spec_decl(d, callee.id, decl)]

\* CycleDetector::visit_stmt
cd_visit_stmt(d, top, stmt) ==
    CASE stmt.kind \in {"Expr", "Semi"} -> visit_expr(d, top, stmt.expr)
      [] stmt.kind = "Local" ->
            [ok |-> TRUE, d |-> map_pat_to_expr(d, top, stmt.pat, stmt.expr)]
      [] OTHER -> [ok |-> TRUE, d |-> d]

(***************************************************************************)
(* The tables of the analysis (rca.rs).                                    *)
(***************************************************************************)
\* create_cycled_function_specialization_applications_table
create_cycled_function_specialization_applications_table_ExtraParam(spec_decl, callable_input_params_count, output_is_unit) ==
    ApplicationsTable(
        EmptyProperties,
        [i \in 1..(callable_input_params_count + 1) |->
            [runtime_features |-> {"CycledFunctionApplicationUsesDynamicArg"},
             dynamism_sources |-> IF output_is_unit THEN {} ELSE {"Assumed"}]])

create_cycled_function_specialization_applications_table(spec_decl, callable_input_params_count, output_is_unit) ==
    ApplicationsTable(
        EmptyProperties,
        [i \in 1..callable_input_params_count |->
            [runtime_features |-> {"CycledFunctionApplicationUsesDynamicArg"},
             dynamism_sources |-> IF output_is_unit THEN {} ELSE {"Assumed"}]])

\* create_cycled_operation_specialization_applications_table
create_cycled_operation_specialization_applications_table_StaticParams(spec_decl, callable_input_params_count, output_is_unit) ==
    ApplicationsTable(
        [runtime_features |-> {"CycledOperationSpecializationApplication"},
         dynamism_sources |-> IF output_is_unit THEN {} ELSE {"Assumed"}],
        [i \in 1..callable_input_params_count |->
            [runtime_features |-> {"CycledOperationSpecializationApplication"},
             dynamism_sources |-> {}]])

create_cycled_operation_specialization_applications_table(spec_decl, callable_input_params_count, output_is_unit) ==
    LET compute_properties_of_cycle ==
            [runtime_features |-> {"CycledOperationSpecializationApplication"},
             dynamism_sources |-> IF output_is_unit THEN {} ELSE {"Assumed"}]
        specialization_input_params_count ==
            IF spec_decl.input THEN callable_input_params_count + 1
            ELSE callable_input_params_count
    IN  ApplicationsTable(
            compute_properties_of_cycle,
            [i \in 1..specialization_input_params_count |-> compute_properties_of_cycle])

\* create_intrinsic_function_applications_table and
\* create_instrinsic_operation_applications_table, for the intrinsics of the
\* model: operations from Qubit to Result and functions from Int to Int.
create_intrinsic_applications_table(callable_decl) ==
    IF callable_decl.kind = "Function"
    THEN ApplicationsTable(
            EmptyProperties,
            [i \in 1..callable_decl.params |->
                [runtime_features |-> {"IntrinsicApplicationUsesDynamicInt"},
                 dynamism_sources |->
                    IF callable_decl.unit THEN {} ELSE {"Intrinsic"}]])
    ELSE ApplicationsTable(
            [runtime_features |-> {},
             dynamism_sources |-> IF callable_decl.unit THEN {} ELSE {"Intrinsic"}],
            [i \in 1..callable_decl.params |->
                [runtime_features |-> {"IntrinsicApplicationUsesDynamicQubit"},
                 dynamism_sources |->
                    IF callable_decl.unit THEN {} ELSE {"Intrinsic"}]])

(***************************************************************************)
(* Tables of intrinsic callables and of regularly analyzed specializations,*)
(* over the types of the callable's signature.                             *)
(***************************************************************************)
\* Ty: the unit type (the empty tuple) and the primitive types of the model.
ParamTypes == {"Int", "Bool", "Double", "Qubit", "Result"}
Types == ParamTypes \cup {"Unit"}

\* derive_intrinsic_runtime_features_from_type (rca.rs)
derive_intrinsic_runtime_features_from_type(ty) ==
    CASE ty = "Unit" -> {}
      [] ty = "Int" -> {"IntrinsicApplicationUsesDynamicInt"}
      [] ty = "Bool" -> {"IntrinsicApplicationUsesDynamicBool"}
      [] ty = "Double" -> {"IntrinsicApplicationUsesDynamicDouble"}
      [] ty = "Qubit" -> {"IntrinsicApplicationUsesDynamicQubit"}
      [] ty = "Result" -> {"IntrinsicApplicationUsesDynamicResult"}

\* create_intrinsic_function_applications_table (rca.rs)
create_intrinsic_function_applications_table(callable_decl, input_params) ==
    LET of_output ==
            IF callable_decl.output = "Unit"
            THEN [runtime_features |-> {}, dynamism_sources |-> {}]
            ELSE [runtime_features |->
                      derive_intrinsic_runtime_features_from_type(callable_decl.output),
                  dynamism_sources |-> {"Intrinsic"}]
    IN  ApplicationsTable(
            EmptyProperties,
            [i \in 1..Len(input_params) |->
                [runtime_features |->
                     of_output.runtime_features
                         \cup derive_intrinsic_runtime_features_from_type(input_params[i]),
                 dynamism_sources |-> of_output.dynamism_sources]])

\* create_instrinsic_operation_applications_table (rca.rs)
create_instrinsic_operation_applications_table(callable_decl, input_params) ==
    LET runtime_features ==
            IF callable_decl.output \in {"Unit", "Qubit", "Result"} THEN {}
            ELSE derive_intrinsic_runtime_features_from_type(callable_decl.output)
        dynamism_sources ==
            IF callable_decl.output \in {"Unit", "Qubit"} THEN {} ELSE {"Intrinsic"}
    IN  ApplicationsTable(
            [runtime_features |-> runtime_features,
             dynamism_sources |-> dynamism_sources],
            [i \in 1..Len(input_params) |->
                [runtime_features |->
                     derive_intrinsic_runtime_features_from_type(input_params[i]),
                 dynamism_sources |->
                     IF callable_decl.output = "Unit" THEN {} ELSE {"Intrinsic"}]])

\* ComputeKind::Quantum(QuantumProperties { runtime_features, value_kind })
QuantumProperties(runtime_features, value_kind) ==
    [kind |-> "Quantum", runtime_features |-> runtime_features,
     value_kind |-> value_kind]
\* ApplicationGeneratorSet { inherent, dynamic_param_applications }
ApplicationGeneratorSet(inherent, dynamic_param_applications) ==
    [tag |-> "Some", inherent |-> inherent,
     dynamic_param_applications |-> dynamic_param_applications]

\* ValueKind::new_dynamic_from_type: the value kind of a dynamic value of the
\* type; a value of the unit type is always static.
new_dynamic_from_type(ty) == IF ty = "Unit" THEN "Static" ELSE "Dynamic"

\* derive_runtime_features_for_value_kind_associated_to_type (core.rs), for
\* the value kind new_dynamic_from_type gives the type.
derive_runtime_features_for_value_kind_associated_to_type(value_kind, ty) ==
    IF value_kind = "Static" THEN {}
    ELSE CASE ty = "Int" -> {"UseOfDynamicInt"}
           [] ty = "Bool" -> {"UseOfDynamicBool"}
           [] ty = "Double" -> {"UseOfDynamicDouble"}
           [] ty = "Qubit" -> {"UseOfDynamicQubit"}
           [] OTHER -> {}

\* derive_intrinsic_function_application_generator_set (core.rs)
derive_intrinsic_function_application_generator_set(callable_context) ==
    ApplicationGeneratorSet(
        Classical,
        [i \in 1..Len(callable_context.input_params) |->
            QuantumProperties(
                derive_runtime_features_for_value_kind_associated_to_type(
                    new_dynamic_from_type(callable_context.input_params[i]),
                    callable_context.input_params[i]),
                new_dynamic_from_type(callable_context.output))])

\* derive_instrinsic_operation_application_generator_set (core.rs)
derive_instrinsic_operation_application_generator_set(callable_context) ==
    ApplicationGeneratorSet(
        QuantumProperties(
            {},
            IF callable_context.output \in {"Unit", "Qubit"} THEN "Static"
            ELSE new_dynamic_from_type(callable_context.output)),
        [i \in 1..Len(callable_context.input_params) |->
            QuantumProperties(
                derive_runtime_features_for_value_kind_associated_to_type(
                    new_dynamic_from_type(callable_context.input_params[i]),
                    callable_context.input_params[i]),
                new_dynamic_from_type(callable_context.output))])

\* GeneratorSetsBuilder::new followed by save_to_package_compute_properties
\* for a specialization whose body is the empty block: one application per
\* input parameter; the controls are a local of every application instance
\* and get no application of their own.
GeneratorSetsBuilder(input_params, controls) ==
    ApplicationGeneratorSet(Classical, [i \in 1..Len(input_params) |-> Classical])

\* derive_specialization_input_params: the number of input parameters of a
\* specialization, one more than the callable's if it has its own input.
derive_specialization_input_params(spec_decl, callable_decl) ==
    IF spec_decl.input THEN callable_decl.params + 1 ELSE callable_decl.params

\* simulate_block_application_instance: the properties of a block.
block_compute_properties(block) ==
    [runtime_features |-> {},
     dynamism_sources |->
        IF Len(block) > 0 /\ block[Len(block)].kind = "Expr" THEN {"Expr"} ELSE {}]

\* SpecApplicationInstances::close: the table of a specialization analyzed
\* with n input parameters.
close_applications_table(n) ==
    ApplicationsTable(EmptyProperties, [i \in 1..n |-> EmptyProperties])

\* SpecApplicationInstances::flush_compute_properties: the store after the
\* block and the statements of the instances were flushed.
RECURSIVE flush_stmts(_, _, _, _)
flush_stmts(store, id, n, stmt_index) ==
    IF stmt_index = 0 THEN store
    ELSE flush_stmts(
            insert_stmt(store, id.package, <<id.item, id.kind, stmt_index>>,
                        close_applications_table(n)),
            id, n, stmt_index - 1)
flush_compute_properties(store, id, n) ==
    LET block == SpecBlock(id)
        block_applications_table ==
            ApplicationsTable(block_compute_properties(block),
                              [i \in 1..n |-> block_compute_properties(block)])
    IN  flush_stmts(insert_block(store, id.package, <<id.item, id.kind>>,
                                 block_applications_table),
                    id, n, Len(block))

(***************************************************************************)
(* Calls of a statement and their callees, as the main analysis sees them. *)
(***************************************************************************)
\* The callee expressions of the calls inside an expression, in the order the
\* analysis reaches them (callee and arguments first, then the call itself).
RECURSIVE CallsIn(_)
RECURSIVE CallsInSeq(_, _)
CallsIn(expr) ==
    LET inner == CallsInSeq(expr.sub, 1)
    IN  IF expr.e = "Call" THEN Append(inner, expr.sub[1]) ELSE inner
CallsInSeq(exprs, i) ==
    IF i > Len(exprs) THEN << >>
    ELSE CallsIn(exprs[i]) \o CallsInSeq(exprs, i + 1)

\* The local bindings in force at a position of a block.
RECURSIVE LocalsAt(_, _, _)
LocalsAt(callable_decl, block, pc) ==
    IF pc <= 1 THEN derive_callable_input_map(callable_decl)
    ELSE LET before == LocalsAt(callable_decl, block, pc - 1)
             stmt == block[pc - 1]
         IN  IF stmt.kind = "Local" /\ stmt.pat.p = "Bind"
             THEN [before EXCEPT ![stmt.pat.var] = LocalVariable(stmt.expr)]
             ELSE before

NoSpecCallee ==
    [tag |-> "None", package |-> 0, item |-> 0,
     functor_app |-> FunctorApplication(FALSE, FALSE)]
\* try_resolve_callee: the callee of a call, if it is known statically.
RECURSIVE try_resolve_callee(_, _)
try_resolve_callee(expr, locals) ==
    CASE expr.e = "VarItem" ->
            [tag |-> "Some", package |-> expr.item[1], item |-> expr.item[2],
             functor_app |-> FunctorApplication(FALSE, FALSE)]
      [] expr.e = "UnOp" ->
            LET callee == try_resolve_callee(expr.sub[1], locals)
            IN  IF callee.tag # "Some" THEN callee
                ELSE [callee EXCEPT !.functor_app =
                        IF expr.functor = "Adj"
                        THEN FunctorApplication(~@.adjoint, @.controlled)
                        ELSE FunctorApplication(@.adjoint, TRUE)]
      [] expr.e = "VarLocal" ->
            IF locals[expr.var].kind = "Local"
            THEN try_resolve_callee(locals[expr.var].expr, locals)
            ELSE NoSpecCallee
      [] OTHER -> NoSpecCallee

(***************************************************************************)
(* The analyzer driver: Analyzer::new and                                  *)
(* Analyzer::update_package_compute_properties.                            *)
(***************************************************************************)
EmptyComputeProperties == flush(EmptyStore)
LastPackage == CHOOSE p \in PackageIds : \A q \in PackageIds : q <= p
\* `visits` logs every visit of a specialization's body the run has begun.
NoAnalysis == [package |-> 0, item |-> 1, spec |-> 1, stack |-> << >>, visits |-> << >>]
Visit(id, pass) == [spec |-> id, pass |-> pass]
StartAnalysis(p) == [NoAnalysis EXCEPT !.package = p]
Top(stack) == stack[Len(stack)]
ReplaceTop(stack, frame) == [stack EXCEPT ![Len(stack)] = frame]
Pop(stack) == SubSeq(stack, 1, Len(stack) - 1)

RcaIdle ==
    /\ program = [p \in PackageIds |-> << >>]
    /\ phase = "idle"
    /\ mode = [op |-> "new", package |-> 0]
    /\ cd = NewCycleDetector(0)
    /\ pending = {}
    /\ reported = {}
    /\ scaffolding = EmptyStore
    /\ compute_properties = EmptyComputeProperties
    /\ an = NoAnalysis
    /\ snapshot = EmptyComputeProperties
    /\ updates = 0

RcaInit ==
    /\ program \in Programs
    /\ phase = "start"
    /\ mode = [op |-> "new", package |-> 0]
    /\ cd = NewCycleDetector(0)
    /\ pending = {}
    /\ reported = {}
    /\ scaffolding = EmptyStore
    /\ compute_properties = EmptyComputeProperties
    /\ an = NoAnalysis
    /\ snapshot = EmptyComputeProperties
    /\ updates = 0

\* Analyzer::new up to the first cycle detection: the scaffolding gets every package.
New ==
    /\ phase = "start"
    /\ scaffolding' = initialize_packages
    /\ cd' = NewCycleDetector(0)
    /\ phase' = "detect"
    /\ UNCHANGED <<program, mode, pending, reported, compute_properties, an,
                   snapshot, updates>>
    /\ UNCHANGED exceptRca

\* visit_package / visit_item: the detector starts the next walk of the next item.
CdVisitItem ==
    /\ phase = "detect"
    /\ cd.stack = << >>
    /\ cd.item <= Len(program[cd.package_id])
    /\ LET item == program[cd.package_id][cd.item]
           walks == IF item.kind = "Namespace" \/ item.intrinsic THEN << >>
                    ELSE visit_item_walks(cd.item, item)
       IN  cd' = IF cd.walk > Len(walks)
                 THEN [cd EXCEPT !.item = @ + 1, !.walk = 1]
                 ELSE walk_spec_decl([cd EXCEPT !.walk = @ + 1],
                                     walks[cd.walk].id, walks[cd.walk].decl)
    /\ UNCHANGED <<program, phase, mode, pending, reported, scaffolding,
                   compute_properties, an, snapshot, updates>>
    /\ UNCHANGED exceptRca

\* visit_stmt on the next statement of the block on top of the stack.
CdVisitStmt ==
    /\ phase = "detect"
    /\ cd.stack # << >>
    /\ LET top == Top(cd.stack)
           block == program[cd.package_id][top.id.callable].specs[top.decl].block
       IN  /\ top.pc <= Len(block)
           /\ LET advanced == [cd EXCEPT !.stack[Len(cd.stack)].pc = @ + 1]
                  result == cd_visit_stmt(advanced, top, block[top.pc])
              IN  /\ cd' = result.d
                  /\ phase' = IF result.ok THEN phase ELSE "abort"
    /\ UNCHANGED <<program, mode, pending, reported, scaffolding,
                   compute_properties, an, snapshot, updates>>
    /\ UNCHANGED exceptRca

\* walk_spec_decl returns: the block on top of the stack was visited.
CdPop ==
    /\ phase = "detect"
    /\ cd.stack # << >>
    /\ LET top == Top(cd.stack)
           block == program[cd.package_id][top.id.callable].specs[top.decl].block
       IN  /\ top.pc > Len(block)
           /\ cd' = [cd EXCEPT !.stack = Pop(@), !.set = @ \ {top.id}]
    /\ UNCHANGED <<program, phase, mode, pending, reported, scaffolding,
                   compute_properties, an, snapshot, updates>>
    /\ UNCHANGED exceptRca

\* detect_specializations_with_cycles returns: the identifiers become
\* store-level specialization identifiers.
specializations_with_cycles_DropsOne(d) ==
    LET all == { GlobalSpecId(d.package_id, id.callable, SpecKindOf(id.functor_application)) :
                 id \in d.callables_with_cycles }
    IN  IF all = {} THEN all ELSE all \ { CHOOSE s \in all : TRUE }

specializations_with_cycles(d) ==
    { GlobalSpecId(d.package_id, id.callable, SpecKindOf(id.functor_application)) :
        id \in d.callables_with_cycles }

ReportedBy(d) ==
    { GlobalSpecId(d.package_id, id.callable, SpecKindOf(id.functor_application)) :
        id \in d.callables_with_cycles }

CdDone ==
    /\ phase = "detect"
    /\ cd.stack = << >>
    /\ cd.item > Len(program[cd.package_id])
    /\ pending' = specializations_with_cycles(cd)
    /\ reported' = reported \cup ReportedBy(cd)
    /\ phase' = "preseed"
    /\ UNCHANGED <<program, mode, cd, scaffolding, compute_properties, an,
                   snapshot, updates>>
    /\ UNCHANGED exceptRca

\* analyze_specialization_with_cyles for one of the reported specializations
\* (the set is iterated in hash order).
PreSeed ==
    /\ phase = "preseed"
    /\ \E specialization_id \in pending :
          LET callable == program[specialization_id.package][specialization_id.item]
              spec_decl == callable.specs[specialization_id.kind]
              applications_table ==
                  IF callable.kind = "Function"
                  THEN create_cycled_function_specialization_applications_table(
                           spec_decl, callable.params, callable.unit)
                  ELSE create_cycled_operation_specialization_applications_table(
                           spec_decl, callable.params, callable.unit)
              inserted == insert_spec(scaffolding, specialization_id, applications_table)
              panics ==
                  \/ find_specialization(scaffolding, specialization_id).tag # "None"
                  \/ callable.kind = "Namespace"
                  \/ callable.intrinsic
                  \/ ~spec_decl.exists
                  \/ (callable.kind = "Function" /\ spec_decl.input)
                  \/ ~inserted.ok
          IN  IF panics
              THEN /\ phase' = "abort"
                   /\ UNCHANGED <<pending, scaffolding>>
              ELSE /\ scaffolding' = inserted.store
                   /\ pending' = pending \ {specialization_id}
                   /\ phase' = phase
    /\ UNCHANGED <<program, mode, cd, reported, compute_properties, an,
                   snapshot, updates>>
    /\ UNCHANGED exceptRca

\* The pre-seeding loop of a package ends: the next package is scanned, or the
\* main analysis starts (with the first package at construction, with the
\* updated package in an update).
PreSeedDone ==
    /\ phase = "preseed"
    /\ pending = {}
    /\ IF mode.op = "new" /\ cd.package_id < LastPackage
       THEN /\ cd' = NewCycleDetector(cd.package_id + 1)
            /\ phase' = "detect"
            /\ an' = an
       ELSE /\ cd' = cd
            /\ phase' = "analyze"
            /\ an' = StartAnalysis(IF mode.op = "new" THEN 0 ELSE mode.package)
    /\ UNCHANGED <<program, mode, pending, reported, scaffolding,
                   compute_properties, snapshot, updates>>
    /\ UNCHANGED exceptRca

(***************************************************************************)
(* The main analysis: analyze_package and the analysis of specializations. *)
(* A frame of the stack is a specialization under analysis: the            *)
(* application instance being simulated (`pass`, 0 for the inherent one),  *)
(* the next statement (`pc`) and the next call of it (`ci`).               *)
(***************************************************************************)
Frame(id) ==
    [spec |-> id, pass |-> 0, pc |-> 1, ci |-> 1, stmts |-> {}, settled |-> 0]
BlockAnalyzed(store, id) ==
    store[id.package].blocks[<<id.item, id.kind>>].tag # "None"

\* analyze_item on an item that is not a callable
AnalyzeNonCallable ==
    /\ phase = "analyze"
    /\ an.stack = << >>
    /\ an.item <= Len(program[an.package])
    /\ program[an.package][an.item].kind = "Namespace"
    /\ LET inserted == insert_item(scaffolding, an.package, an.item, NonCallable)
       IN  /\ scaffolding' = inserted.store
           /\ phase' = IF inserted.ok THEN phase ELSE "abort"
    /\ an' = [an EXCEPT !.item = @ + 1, !.spec = 1]
    /\ UNCHANGED <<program, mode, cd, pending, reported, compute_properties,
                   snapshot, updates>>
    /\ UNCHANGED exceptRca

\* analyze_intrinsic_callable on a top-level item
AnalyzeIntrinsicCallable ==
    /\ phase = "analyze"
    /\ an.stack = << >>
    /\ an.item <= Len(program[an.package])
    /\ program[an.package][an.item].kind # "Namespace"
    /\ program[an.package][an.item].intrinsic
    /\ LET id == GlobalSpecId(an.package, an.item, "Body")
           inserted == insert_spec(scaffolding, id,
                           create_intrinsic_applications_table(program[an.package][an.item]))
       IN  IF find_specialization(scaffolding, id).tag # "None"
           THEN UNCHANGED <<scaffolding, phase>>
           ELSE /\ scaffolding' = inserted.store
                /\ phase' = IF inserted.ok THEN phase ELSE "abort"
    /\ an' = [an EXCEPT !.item = @ + 1, !.spec = 1]
    /\ UNCHANGED <<program, mode, cd, pending, reported, compute_properties,
                   snapshot, updates>>
    /\ UNCHANGED exceptRca

\* analyze_non_intrinsic_callable: the next specialization of the item is
\* handed to analyze_specialization, which returns at once if it has a table.
AnalyzeNonIntrinsicCallable ==
    /\ phase = "analyze"
    /\ an.stack = << >>
    /\ an.item <= Len(program[an.package])
    /\ program[an.package][an.item].kind # "Namespace"
    /\ ~program[an.package][an.item].intrinsic
    /\ IF an.spec > Len(SpecKindSeq)
       THEN /\ an' = [an EXCEPT !.item = @ + 1, !.spec = 1]
            /\ phase' = phase
       ELSE LET id == GlobalSpecId(an.package, an.item, SpecKindSeq[an.spec])
                spec_decl == program[an.package][an.item].specs[id.kind]
            IN  IF ~spec_decl.exists \/ find_specialization(scaffolding, id).tag # "None"
                THEN /\ an' = [an EXCEPT !.spec = @ + 1]
                     /\ phase' = phase
                ELSE /\ an' = [an EXCEPT !.spec = @ + 1, !.stack = <<Frame(id)>>,
                                           !.visits = Append(@, Visit(id, 0))]
                     /\ phase' = IF BlockAnalyzed(scaffolding, id) THEN "abort" ELSE phase
    /\ UNCHANGED <<program, mode, cd, pending, reported, scaffolding,
                   compute_properties, snapshot, updates>>
    /\ UNCHANGED exceptRca

\* A call inside the statement being simulated: the callee's specialization
\* is analyzed first (analyze_spec), unless it already has a table.
AnalyzeCall ==
    /\ phase = "analyze"
    /\ an.stack # << >>
    /\ LET top == Top(an.stack)
           caller == program[top.spec.package][top.spec.item]
           block == SpecBlock(top.spec)
       IN  /\ top.pc <= Len(block)
           /\ LET calls == CallsIn(block[top.pc].expr)
              IN  /\ top.ci <= Len(calls)
                  /\ LET callee == try_resolve_callee(calls[top.ci],
                                                      LocalsAt(caller, block, top.pc))
                         callee_id == GlobalSpecId(callee.package, callee.item,
                                                   SpecKindOf(callee.functor_app))
                         callable_decl == program[callee.package][callee.item]
                         next_call == ReplaceTop(an.stack, [top EXCEPT !.ci = @ + 1])
                         inserted == insert_spec(scaffolding, callee_id,
                                         create_intrinsic_applications_table(callable_decl))
                     IN  CASE callee.tag # "Some" ->
                                /\ an' = [an EXCEPT !.stack = next_call]
                                /\ UNCHANGED <<scaffolding, phase>>
                           [] callee.tag = "Some" /\ callable_decl.kind = "Namespace" ->
                                /\ an' = [an EXCEPT !.stack = next_call]
                                /\ UNCHANGED <<scaffolding, phase>>
                           [] callee.tag = "Some" /\ callable_decl.kind # "Namespace"
                                /\ find_specialization(scaffolding, callee_id).tag # "None" ->
                                /\ an' = [an EXCEPT !.stack = next_call]
                                /\ UNCHANGED <<scaffolding, phase>>
                           [] callee.tag = "Some" /\ callable_decl.kind # "Namespace"
                                /\ find_specialization(scaffolding, callee_id).tag = "None"
                                /\ callable_decl.intrinsic ->
                                /\ an' = [an EXCEPT !.stack = next_call]
                                /\ scaffolding' = inserted.store
                                /\ phase' = IF inserted.ok THEN phase ELSE "abort"
                           [] OTHER ->
                                /\ scaffolding' = scaffolding
                                /\ IF ~callable_decl.specs[callee_id.kind].exists
                                   THEN an' = an /\ phase' = "abort"
                                   ELSE IF Len(an.stack) >= MaxDepth
                                   THEN an' = an /\ phase' = "overflow"
                                   ELSE /\ an' = [an EXCEPT !.stack = Append(@, Frame(callee_id)),
                                                              !.visits = Append(@, Visit(callee_id, 0))]
                                        /\ phase' = phase
    /\ UNCHANGED <<program, mode, cd, pending, reported, compute_properties,
                   snapshot, updates>>
    /\ UNCHANGED exceptRca

\* simulate_stmt_application_instance: the statement gets its properties in
\* the application instance once its calls were analyzed.
SimulateStmt ==
    /\ phase = "analyze"
    /\ an.stack # << >>
    /\ LET top == Top(an.stack)
           block == SpecBlock(top.spec)
       IN  /\ top.pc <= Len(block)
           /\ top.ci > Len(CallsIn(block[top.pc].expr))
           /\ an' = [an EXCEPT !.stack = ReplaceTop(@,
                        [top EXCEPT !.pc = @ + 1, !.ci = 1, !.stmts = @ \cup {top.pc}])]
    /\ UNCHANGED <<program, phase, mode, cd, pending, reported, scaffolding,
                   compute_properties, snapshot, updates>>
    /\ UNCHANGED exceptRca

\* The application instance is settled and the next one is simulated.
SettleInstance ==
    /\ phase = "analyze"
    /\ an.stack # << >>
    /\ LET top == Top(an.stack)
           callable_decl == program[top.spec.package][top.spec.item]
           spec_decl == callable_decl.specs[top.spec.kind]
       IN  /\ top.pc > Len(spec_decl.block)
           /\ top.pass < derive_specialization_input_params(spec_decl, callable_decl)
           /\ an' = [an EXCEPT !.stack = ReplaceTop(@,
                        [top EXCEPT !.pass = @ + 1, !.pc = 1, !.ci = 1, !.stmts = {},
                                    !.settled = @ + 1]),
                                !.visits = Append(@, Visit(top.spec, top.pass + 1))]
           /\ phase' = IF BlockAnalyzed(scaffolding, top.spec) THEN "abort" ELSE phase
    /\ UNCHANGED <<program, mode, cd, pending, reported, scaffolding,
                   compute_properties, snapshot, updates>>
    /\ UNCHANGED exceptRca

\* The last application instance is settled: SpecApplicationInstances::close
\* flushes the block and its statements, and the table is inserted.
CloseSpecialization ==
    /\ phase = "analyze"
    /\ an.stack # << >>
    /\ LET top == Top(an.stack)
           callable_decl == program[top.spec.package][top.spec.item]
           spec_decl == callable_decl.specs[top.spec.kind]
           n == derive_specialization_input_params(spec_decl, callable_decl)
           inserted == insert_spec(flush_compute_properties(scaffolding, top.spec, n),
                                   top.spec, close_applications_table(n))
       IN  /\ top.pc > Len(spec_decl.block)
           /\ top.pass >= n
           /\ scaffolding' = inserted.store
           /\ phase' = IF inserted.ok THEN phase ELSE "abort"
           /\ an' = [an EXCEPT !.stack = Pop(@)]
    /\ UNCHANGED <<program, mode, cd, pending, reported, compute_properties,
                   snapshot, updates>>
    /\ UNCHANGED exceptRca

\* analyze_package returns (analyze_statement leaves the store as it is): the
\* next package is analyzed, or the results are flushed.
AnalyzePackageDone ==
    /\ phase = "analyze"
    /\ an.stack = << >>
    /\ an.item > Len(program[an.package])
    /\ IF mode.op = "new" /\ an.package < LastPackage
       THEN /\ an' = [StartAnalysis(an.package + 1) EXCEPT !.visits = an.visits]
            /\ phase' = phase
       ELSE /\ an' = an
            /\ phase' = "flush"
    /\ UNCHANGED <<program, mode, cd, pending, reported, scaffolding,
                   compute_properties, snapshot, updates>>
    /\ UNCHANGED exceptRca

\* PackageStoreScaffolding::flush into the (empty) compute properties
Flush ==
    /\ phase = "flush"
    /\ IF FlushPanics(scaffolding) \/ ~IsEmptyStore(compute_properties)
       THEN /\ phase' = "abort"
            /\ UNCHANGED <<scaffolding, compute_properties>>
       ELSE /\ compute_properties' = flush(scaffolding)
            /\ scaffolding' = EmptyStore
            /\ phase' = "ready"
    /\ UNCHANGED <<program, mode, cd, pending, reported, an, snapshot, updates>>
    /\ UNCHANGED exceptRca

\* Analyzer::update_package_compute_properties up to cycle detection: the
\* package is cleared and the scaffolding takes the compute properties.
Update ==
    /\ phase = "ready"
    /\ updates < MaxUpdates
    /\ \E package_id \in PackageIds :
          /\ mode' = [op |-> "update", package |-> package_id]
          /\ scaffolding' = take(clear(compute_properties, package_id))
          /\ cd' = NewCycleDetector(package_id)
    /\ compute_properties' = EmptyComputeProperties
    /\ snapshot' = compute_properties
    /\ pending' = {}
    /\ reported' = {}
    /\ an' = NoAnalysis
    /\ updates' = updates + 1
    /\ phase' = "detect"
    /\ UNCHANGED program
    /\ UNCHANGED exceptRca

(***************************************************************************)
(* Construction of one specialization's table: the callable is drawn from  *)
(* the signatures of the model, and one constructor is applied to it.      *)
(***************************************************************************)
\* Sequences of parameter types of at most MaxParams parameters.
ParamLists == UNION { [1..n -> ParamTypes] : n \in 0..MaxParams }

\* A callable (kind, flattened input parameters, output type) and whether the
\* specialization has its own input (spec_decl.input, the controls).
TbDecls ==
    { d \in [kind : {"Function", "Operation"}, input_params : ParamLists,
             output : Types, input : BOOLEAN] :
        d.kind = "Function" => ~d.input }

TbBuilt(by, table) == [by |-> by, table |-> table]

TbIdle ==
    /\ tb_decl = [kind |-> "Function", input_params |-> << >>,
                  output |-> "Unit", input |-> FALSE]
    /\ tb_table = TbBuilt("none", NoTable)

TbInit ==
    /\ tb_decl \in TbDecls
    /\ tb_table = TbBuilt("none", NoTable)

\* analyze_specialization_with_cyles, function branch
TbCycledFunction ==
    /\ tb_table.by = "none"
    /\ tb_decl.kind = "Function"
    /\ tb_table' = TbBuilt("cycle",
            create_cycled_function_specialization_applications_table(
                tb_decl, Len(tb_decl.input_params), tb_decl.output = "Unit"))
    /\ UNCHANGED tb_decl
    /\ UNCHANGED exceptTb

\* analyze_specialization_with_cyles, operation branch
TbCycledOperation ==
    /\ tb_table.by = "none"
    /\ tb_decl.kind = "Operation"
    /\ tb_table' = TbBuilt("cycle",
            create_cycled_operation_specialization_applications_table(
                tb_decl, Len(tb_decl.input_params), tb_decl.output = "Unit"))
    /\ UNCHANGED tb_decl
    /\ UNCHANGED exceptTb

\* rca.rs analyze_intrinsic_callable: the table of the body of an intrinsic
TbIntrinsicFunction ==
    /\ tb_table.by = "none"
    /\ tb_decl.kind = "Function"
    /\ tb_table' = TbBuilt("intrinsic",
            create_intrinsic_function_applications_table(
                tb_decl, tb_decl.input_params))
    /\ UNCHANGED tb_decl
    /\ UNCHANGED exceptTb

TbIntrinsicOperation ==
    /\ tb_table.by = "none"
    /\ tb_decl.kind = "Operation"
    /\ ~tb_decl.input
    /\ tb_table' = TbBuilt("intrinsic",
            create_instrinsic_operation_applications_table(
                tb_decl, tb_decl.input_params))
    /\ UNCHANGED tb_decl
    /\ UNCHANGED exceptTb

\* core.rs analyze_intrinsic_callable
TbDeriveIntrinsicFunction ==
    /\ tb_table.by = "none"
    /\ tb_decl.kind = "Function"
    /\ tb_table' = TbBuilt("intrinsic",
            derive_intrinsic_function_application_generator_set(tb_decl))
    /\ UNCHANGED tb_decl
    /\ UNCHANGED exceptTb

TbDeriveIntrinsicOperation ==
    /\ tb_table.by = "none"
    /\ tb_decl.kind = "Operation"
    /\ ~tb_decl.input
    /\ tb_table' = TbBuilt("intrinsic",
            derive_instrinsic_operation_application_generator_set(tb_decl))
    /\ UNCHANGED tb_decl
    /\ UNCHANGED exceptTb

\* core.rs analyze_spec_decl: set_current_spec_context builds the
\* GeneratorSetsBuilder, save_to_package_compute_properties gives the table.
TbAnalyzeSpecDecl ==
    /\ tb_table.by = "none"
    /\ tb_table' = TbBuilt("analysis",
            GeneratorSetsBuilder(tb_decl.input_params, tb_decl.input))
    /\ UNCHANGED tb_decl
    /\ UNCHANGED exceptTb

TbNext ==
    \/ TbCycledFunction \/ TbCycledOperation
    \/ TbIntrinsicFunction \/ TbIntrinsicOperation
    \/ TbDeriveIntrinsicFunction \/ TbDeriveIntrinsicOperation
    \/ TbAnalyzeSpecDecl

(***************************************************************************)
(* Resolution of a callee expression by the cycle detector (SpecRs).       *)
(***************************************************************************)
\* The callee expressions under the functors: an item of the package, an item
\* of another package, a local bound to `Adjoint Bar`, an input parameter.
RsCallees == { VarItem(1, 1), VarItem(0, 1), VarLocal("f"), VarLocal("a") }
\* The node map of the specialization that holds the call:
\* `let f = Adjoint Bar;` in a callable with the input parameter a.
RsNodeMap ==
    [created |-> TRUE,
     vars |-> [v \in Vars |->
                 CASE v = "f" -> LocalVariable(Functor("Adj", VarItem(1, 2)))
                   [] v = "a" -> InputParam
                   [] OTHER -> AbsentVariable]]
\* The functors fs applied to a callee, fs[1] outermost.
RECURSIVE ApplyFunctors(_, _)
ApplyFunctors(fs, callee) ==
    IF fs = << >> THEN callee
    ELSE Functor(fs[1], ApplyFunctors(Tail(fs), callee))
RsExprs ==
    { ApplyFunctors(fs, callee) :
        fs \in UNION { [1..n -> {"Adj", "Ctl"}] : n \in 0..MaxFunctors },
        callee \in RsCallees }

RsPending == [NoCallee EXCEPT !.tag = "Pending"]
RsIdle ==
    /\ rs_expr = Lit
    /\ rs_callee = NoCallee
RsInit ==
    /\ rs_expr \in RsExprs
    /\ rs_callee = RsPending
\* visit_expr reaches the call and resolves its callee in package 1.
RsResolve ==
    /\ rs_callee.tag = "Pending"
    /\ rs_callee' = resolve_callee(rs_expr, 1, RsNodeMap)
    /\ UNCHANGED rs_expr
    /\ UNCHANGED exceptRs
RsNext == RsResolve

(***************************************************************************)
(* The driver of core.rs: analyze_all, analyze_package, analyze_item,      *)
(* analyze_spec and analyze_spec_decl with the stack of analysis contexts  *)
(* (SpecCx). `calls` holds the activations of analyze_item and             *)
(* analyze_spec: the item, the specialization being visited, the           *)
(* application instance (`pass`), the next statement (`pc`) and call (`ci`)*)
(* of its block, and the step the activation is at.                        *)
(***************************************************************************)
StoreItemId(package, item) == [package |-> package, item |-> item]
\* AnalysisContext::Item(ItemContext::new(id))
ItemContext(id) ==
    [kind |-> "Item", id |-> id, callable_context |-> FALSE,
     current_spec_context |-> "None"]
\* AnalysisContext::TopLevel(TopLevelContext::new(package_id))
TopLevelContext(package_id) ==
    [kind |-> "TopLevel", id |-> StoreItemId(package_id, 0), callable_context |-> FALSE,
     current_spec_context |-> "None"]

push_item_context(active_contexts, id) == Append(active_contexts, ItemContext(id))

\* pop_item_context: the popped context has to be an item context.
pop_item_context_Oldest(active_contexts) ==
    IF active_contexts = << >>
    THEN [ok |-> FALSE, contexts |-> << >>, id |-> StoreItemId(0, 0)]
    ELSE [ok |-> Head(active_contexts).kind = "Item",
          contexts |-> Tail(active_contexts),
          id |-> Head(active_contexts).id]

pop_item_context(active_contexts) ==
    IF active_contexts = << >>
    THEN [ok |-> FALSE, contexts |-> << >>, id |-> StoreItemId(0, 0)]
    ELSE [ok |-> Top(active_contexts).kind = "Item",
          contexts |-> Pop(active_contexts),
          id |-> Top(active_contexts).id]

CxFrame(fn, id, step) ==
    [fn |-> fn, id |-> id, step |-> step, spec |-> 1, kind |-> "Body",
     pass |-> 0, pc |-> 1, ci |-> 1]
CxSpecId(frame) == GlobalSpecId(frame.id.package, frame.id.item, frame.kind)

CxNone ==
    [run |-> "all", package |-> 0, item |-> 1, status |-> "idle",
     active_contexts |-> << >>, calls |-> << >>, specs |-> {}, depth |-> 0]
CxIdle == cx = CxNone

\* analyze_item: the context of the item is pushed before the item is visited.
CxAnalyzeItem ==
    /\ cx.status = "items"
    /\ cx.calls = << >>
    /\ cx.item <= Len(program[cx.package])
    /\ LET id == StoreItemId(cx.package, cx.item)
       IN  cx' = [cx EXCEPT !.active_contexts = push_item_context(@, id),
                            !.calls = <<CxFrame("analyze_item", id, "visit")>>,
                            !.depth = IF @ < 1 THEN 1 ELSE @]
    /\ UNCHANGED exceptCx

\* visit_item: a namespace gets its entry; visit_callable_decl sets the
\* callable context and analyzes an intrinsic at once.
CxVisitItem ==
    /\ cx.status = "items"
    /\ cx.calls # << >>
    /\ Top(cx.calls).step = "visit"
    /\ LET top == Top(cx.calls)
           item == program[top.id.package][top.id.item]
           context == Top(cx.active_contexts)
       IN  IF item.kind = "Namespace"
           THEN cx' = [cx EXCEPT !.calls = ReplaceTop(@, [top EXCEPT !.step = "pop"])]
           ELSE IF context.kind # "Item" \/ context.callable_context
           THEN cx' = [cx EXCEPT !.status = "assert"]
           ELSE cx' = [cx EXCEPT
                    !.active_contexts =
                        ReplaceTop(@, [context EXCEPT !.callable_context = TRUE]),
                    !.specs = IF item.intrinsic
                              THEN @ \cup {GlobalSpecId(top.id.package, top.id.item, "Body")}
                              ELSE @,
                    !.calls = ReplaceTop(@,
                        [top EXCEPT !.step = IF item.intrinsic THEN "pop" ELSE "impl"])]
    /\ UNCHANGED exceptCx

\* visit_spec_impl hands the next specialization of the item to
\* analyze_spec_decl, which sets the current specialization context.
CxAnalyzeSpecDecl ==
    /\ cx.status = "items"
    /\ cx.calls # << >>
    /\ Top(cx.calls).step = "impl"
    /\ LET top == Top(cx.calls)
           context == Top(cx.active_contexts)
       IN  IF top.spec > Len(SpecKindSeq)
           THEN cx' = [cx EXCEPT !.calls = ReplaceTop(@, [top EXCEPT !.step = "pop"])]
           ELSE LET kind == SpecKindSeq[top.spec]
                    id == GlobalSpecId(top.id.package, top.id.item, kind)
                IN  IF \/ ~program[id.package][id.item].specs[kind].exists
                       \/ id \in cx.specs
                    THEN cx' = [cx EXCEPT !.calls =
                                    ReplaceTop(@, [top EXCEPT !.spec = @ + 1])]
                    ELSE IF context.kind # "Item" \/ context.current_spec_context # "None"
                    THEN cx' = [cx EXCEPT !.status = "assert"]
                    ELSE cx' = [cx EXCEPT
                            !.active_contexts = ReplaceTop(@,
                                [context EXCEPT !.current_spec_context = kind]),
                            !.calls = ReplaceTop(@,
                                [top EXCEPT !.step = "block", !.kind = kind,
                                            !.pass = 0, !.pc = 1, !.ci = 1])]
    /\ UNCHANGED exceptCx

\* analyze_expr_call_with_spec_callee: analyze_spec on the callee, which
\* returns at once if the callee has a table and otherwise pushes the context
\* of the callee's item and analyzes the one specialization.
CxCall ==
    /\ cx.status = "items"
    /\ cx.calls # << >>
    /\ Top(cx.calls).step = "block"
    /\ LET top == Top(cx.calls)
           caller == program[top.id.package][top.id.item]
           block == SpecBlock(CxSpecId(top))
       IN  /\ top.pc <= Len(block)
           /\ LET calls == CallsIn(block[top.pc].expr)
              IN  /\ top.ci <= Len(calls)
                  /\ LET callee == try_resolve_callee(calls[top.ci],
                                                      LocalsAt(caller, block, top.pc))
                         callee_item == StoreItemId(callee.package, callee.item)
                         callee_id == GlobalSpecId(callee.package, callee.item,
                                                   SpecKindOf(callee.functor_app))
                         callable_decl == program[callee.package][callee.item]
                         next_call == ReplaceTop(cx.calls, [top EXCEPT !.ci = @ + 1])
                         pushed == ReplaceTop(
                                       push_item_context(cx.active_contexts, callee_item),
                                       [ItemContext(callee_item) EXCEPT
                                           !.callable_context = TRUE,
                                           !.current_spec_context =
                                               IF callable_decl.intrinsic THEN "None"
                                               ELSE callee_id.kind])
                         frame == [CxFrame("analyze_spec", callee_item,
                                           IF callable_decl.intrinsic THEN "pop" ELSE "block")
                                     EXCEPT !.kind = callee_id.kind]
                     IN  IF \/ callee.tag # "Some"
                            \/ callable_decl.kind = "Namespace"
                            \/ callee_id \in cx.specs
                         THEN cx' = [cx EXCEPT !.calls = next_call]
                         ELSE IF Len(cx.calls) >= MaxDepth
                         THEN cx' = [cx EXCEPT !.status = "overflow"]
                         ELSE IF ~callable_decl.intrinsic
                                 /\ ~callable_decl.specs[callee_id.kind].exists
                         THEN cx' = [cx EXCEPT !.status = "panic",
                                       !.active_contexts =
                                           push_item_context(@, callee_item)]
                         ELSE cx' = [cx EXCEPT
                                 !.active_contexts = pushed,
                                 !.calls = Append(@, frame),
                                 !.specs = IF callable_decl.intrinsic
                                           THEN @ \cup {GlobalSpecId(callee.package,
                                                                     callee.item, "Body")}
                                           ELSE @,
                                 !.depth = IF @ < Len(cx.calls) + 1
                                           THEN Len(cx.calls) + 1 ELSE @]
    /\ UNCHANGED exceptCx

\* visit_stmt: the calls of the statement were analyzed, the next one follows.
CxStmt ==
    /\ cx.status = "items"
    /\ cx.calls # << >>
    /\ Top(cx.calls).step = "block"
    /\ LET top == Top(cx.calls)
           block == SpecBlock(CxSpecId(top))
       IN  /\ top.pc <= Len(block)
           /\ top.ci > Len(CallsIn(block[top.pc].expr))
           /\ cx' = [cx EXCEPT !.calls =
                        ReplaceTop(@, [top EXCEPT !.pc = @ + 1, !.ci = 1])]
    /\ UNCHANGED exceptCx

\* visit_spec_decl visits the block once more for the next application
\* instance; after the last one analyze_spec_decl clears the current
\* specialization context and inserts the specialization's table.
CxAdvance ==
    /\ cx.status = "items"
    /\ cx.calls # << >>
    /\ Top(cx.calls).step = "block"
    /\ LET top == Top(cx.calls)
           id == CxSpecId(top)
           callable_decl == program[id.package][id.item]
           spec_decl == callable_decl.specs[id.kind]
           context == Top(cx.active_contexts)
       IN  /\ top.pc > Len(spec_decl.block)
           /\ IF top.pass < derive_specialization_input_params(spec_decl, callable_decl)
              THEN cx' = [cx EXCEPT !.calls = ReplaceTop(@,
                             [top EXCEPT !.pass = @ + 1, !.pc = 1, !.ci = 1])]
              ELSE IF context.kind # "Item" \/ context.current_spec_context # id.kind
              THEN cx' = [cx EXCEPT !.status = "assert"]
              ELSE cx' = [cx EXCEPT
                      !.active_contexts = ReplaceTop(@,
                          [context EXCEPT !.current_spec_context = "None"]),
                      !.specs = @ \cup {id},
                      !.calls = ReplaceTop(@,
                          IF top.fn = "analyze_item"
                          THEN [top EXCEPT !.step = "impl", !.spec = @ + 1]
                          ELSE [top EXCEPT !.step = "pop"])]
    /\ UNCHANGED exceptCx

\* analyze_item and analyze_spec pop the context they pushed and assert that
\* it is the one of their item.
CxPop ==
    /\ cx.status = "items"
    /\ cx.calls # << >>
    /\ Top(cx.calls).step = "pop"
    /\ LET top == Top(cx.calls)
           popped == pop_item_context(cx.active_contexts)
           returned == Pop(cx.calls)
       IN  IF ~popped.ok \/ popped.id # top.id
           THEN cx' = [cx EXCEPT !.status = "assert"]
           ELSE cx' = [cx EXCEPT
                   !.active_contexts = popped.contexts,
                   !.calls = IF top.fn = "analyze_item" THEN returned
                             ELSE ReplaceTop(returned,
                                      [Top(returned) EXCEPT !.ci = @ + 1]),
                   !.item = IF top.fn = "analyze_item" THEN @ + 1 ELSE @]
    /\ UNCHANGED exceptCx

\* analyze_package_internal after the items: the top-level context is pushed
\* for the statements that are left.
CxTopLevel ==
    /\ cx.status = "items"
    /\ cx.calls = << >>
    /\ cx.item > Len(program[cx.package])
    /\ cx' = [cx EXCEPT !.active_contexts = Append(@, TopLevelContext(cx.package)),
                        !.status = "top_level"]
    /\ UNCHANGED exceptCx

\* pop_top_level_context and the assertion on its package; analyze_all goes
\* on with the next package, analyze_package returns.
CxTopLevelDone ==
    /\ cx.status = "top_level"
    /\ LET context == IF cx.active_contexts = << >> THEN ItemContext(StoreItemId(0, 0))
                      ELSE Top(cx.active_contexts)
       IN  IF context.kind # "TopLevel" \/ context.id.package # cx.package
           THEN cx' = [cx EXCEPT !.status = "assert"]
           ELSE IF cx.run = "all" /\ cx.package < LastPackage
           THEN cx' = [cx EXCEPT !.active_contexts = Pop(@),
                                !.package = @ + 1, !.item = 1, !.status = "items"]
           ELSE cx' = [cx EXCEPT !.active_contexts = Pop(@), !.status = "done"]
    /\ UNCHANGED exceptCx

CxNext ==
    \/ CxAnalyzeItem \/ CxVisitItem \/ CxAnalyzeSpecDecl \/ CxCall \/ CxStmt
    \/ CxAdvance \/ CxPop \/ CxTopLevel \/ CxTopLevelDone

(***************************************************************************)
(* The merge of the application instances of a specialization (SpecMg):    *)
(* GeneratorSetsBuilder::save_application_generator_sets, and the same     *)
(* loops in SpecApplicationInstances::flush_compute_properties of rca.rs.  *)
(* Instance 1 is the inherent one, instance n + 1 the one of parameter n.  *)
(***************************************************************************)
MgKinds == {"blocks", "stmts", "exprs"}
\* The compute kind instance i recorded for an entity.
MgComputeKind(i, kind, id) == [instance |-> i, kind |-> kind, id |-> id]
NoEntries == [id \in {} |-> MgComputeKind(0, "", 0)]
\* ApplicationInstanceComputeProperties of instance i with the given entities.
MgInstance(i, recorded) ==
    [kind \in MgKinds |-> [id \in recorded[kind] |-> MgComputeKind(i, kind, id)]]
\* What the instances may have recorded of the block, its statement and its expression.
MgRecorded == [MgKinds -> SUBSET {1}]

\* The loop over one of the three maps: for every entry drained from the
\* inherent instance the entry is removed from every dynamic instance, in
\* the order of the parameters; a missing entry panics.
save_application_generator_sets_Reversed(instances, kind) ==
    LET k == Len(instances) - 1
        inherent == instances[1][kind]
    IN  IF \E id \in DOMAIN inherent :
              \E n \in 1..k : id \notin DOMAIN instances[n + 1][kind]
        THEN [ok |-> FALSE, sets |-> NoEntries]
        ELSE [ok |-> TRUE,
              sets |-> [id \in DOMAIN inherent |->
                          ApplicationGeneratorSet(
                              inherent[id],
                              [n \in 1..k |-> instances[(k - n) + 2][kind][id]])]]

save_application_generator_sets(instances, kind) ==
    LET k == Len(instances) - 1
        inherent == instances[1][kind]
    IN  IF \E id \in DOMAIN inherent :
              \E n \in 1..k : id \notin DOMAIN instances[n + 1][kind]
        THEN [ok |-> FALSE, sets |-> NoEntries]
        ELSE [ok |-> TRUE,
              sets |-> [id \in DOMAIN inherent |->
                          ApplicationGeneratorSet(
                              inherent[id],
                              [n \in 1..k |-> instances[n + 1][kind][id]])]]

MgNone ==
    [instances |-> << >>, store |-> [kind \in MgKinds |-> NoEntries], status |-> "idle"]
MgIdle == mg = MgNone
MgInit ==
    \E k \in 0..MaxParams :
        \E recorded \in [1..(k + 1) -> MgRecorded] :
            mg = [MgNone EXCEPT
                    !.instances = [i \in 1..(k + 1) |-> MgInstance(i - 1, recorded[i])],
                    !.status = "closed"]
\* save_to_package_compute_properties once the instances are closed
MgSave ==
    /\ mg.status = "closed"
    /\ LET saved == [kind \in MgKinds |->
                        save_application_generator_sets(mg.instances, kind)]
       IN  IF \A kind \in MgKinds : saved[kind].ok
           THEN mg' = [mg EXCEPT !.store = [kind \in MgKinds |-> saved[kind].sets],
                                 !.status = "saved"]
           ELSE mg' = [mg EXCEPT !.status = "abort"]
    /\ UNCHANGED exceptMg
MgNext == MgSave

(***************************************************************************)
(* The application instances of a specialization in rca.rs, their          *)
(* operations called freely (SpecSai). `blocks` stands for the three maps  *)
(* blocks, stmts and exprs, which the simulation of the block fills and    *)
(* the flush drains together; the vectors hold at most one element.        *)
(***************************************************************************)
\* ApplicationInstance::new: the locals are the input parameters.
NewApplicationInstance(input_params) ==
    [locals |-> input_params > 0, active_dynamic_scopes |-> << >>,
     return_expressions |-> << >>, blocks |-> {},
     is_settled |-> FALSE, was_flushed |-> FALSE]

\* ApplicationInstance::settle
settle_NoAssert(instance) ==
    [ok |-> TRUE, instance |-> [instance EXCEPT !.is_settled = TRUE]]

settle(instance) ==
    [ok |-> instance.active_dynamic_scopes = << >>,
     instance |-> [instance EXCEPT !.is_settled = TRUE]]

\* ApplicationInstance::clear_locals
clear_locals(instance) ==
    [ok |-> instance.is_settled,
     instance |-> [instance EXCEPT !.locals = FALSE]]

\* ApplicationInstance::aggregate_return_expressions: the compute properties
\* of every return expression have to be in the map of expressions.
aggregate_return_expressions(instance) ==
    [ok |-> /\ instance.is_settled
            /\ ~instance.was_flushed
            /\ instance.return_expressions # << >> => instance.blocks # {},
     instance |-> [instance EXCEPT !.return_expressions = << >>]]

\* ApplicationInstance::mark_flushed
mark_flushed(instance) ==
    [ok |-> /\ instance.is_settled
            /\ instance.return_expressions = << >>
            /\ instance.blocks = {},
     instance |-> [instance EXCEPT !.was_flushed = TRUE]]

AllOk(results) == \A i \in 1..Len(results) : results[i].ok
InstancesOf(results) == [i \in 1..Len(results) |-> results[i].instance]

\* SpecApplicationInstances::flush_compute_properties: every entry drained
\* from the inherent instance is removed from each dynamic instance, which
\* has to hold it; then every instance is marked flushed.
flush_instances(instances) ==
    LET inherent == instances[1].blocks
        removed == [i \in 1..Len(instances) |->
                      [instances[i] EXCEPT !.blocks = @ \ inherent]]
        marked == [i \in 1..Len(instances) |-> mark_flushed(removed[i])]
    IN  [ok |-> /\ \A i \in 2..Len(instances) : inherent \subseteq instances[i].blocks
                /\ AllOk(marked),
         instances |-> InstancesOf(marked),
         blocks |-> inherent]

SaiNone ==
    [instances |-> << >>, is_settled |-> FALSE, blocks |-> {}, table |-> FALSE,
     status |-> "idle"]
SaiIdle == sai = SaiNone
\* SpecApplicationInstances::new
SaiNew(n) ==
    [SaiNone EXCEPT !.instances = [i \in 1..n |-> NewApplicationInstance(n - 1)],
                    !.status = "open"]
\* A failed assertion or expect ends the analysis.
SaiAbort == [SaiNew(Len(sai.instances)) EXCEPT !.status = "abort"]
SaiInit == \E n \in 1..MaxInstances : sai = SaiNew(n)

SaiWith(i, result) ==
    IF result.ok THEN [sai EXCEPT !.instances[i] = result.instance] ELSE SaiAbort

\* The simulation of the block fills an instance: the block and its
\* statements are recorded (simulate_block_application_instance panics if
\* the block is in the scaffolding already), a dynamic scope is entered or
\* left, a return expression is noted.
SaiPopulate ==
    /\ sai.status = "open"
    /\ \E i \in 1..Len(sai.instances), what \in {"block", "enter", "leave", "return"} :
          LET instance == sai.instances[i]
          IN  CASE what = "block" ->
                      sai' = IF sai.blocks # {} THEN SaiAbort
                             ELSE [sai EXCEPT !.instances[i].blocks = {1}]
                [] what = "enter" ->
                      /\ instance.active_dynamic_scopes = << >>
                      /\ sai' = [sai EXCEPT !.instances[i].active_dynamic_scopes = <<1>>]
                [] what = "leave" ->
                      /\ instance.active_dynamic_scopes # << >>
                      /\ sai' = [sai EXCEPT !.instances[i].active_dynamic_scopes = << >>]
                [] OTHER ->
                      /\ instance.return_expressions = << >>
                      /\ sai' = [sai EXCEPT !.instances[i].return_expressions = <<1>>]
    /\ UNCHANGED exceptSai

SaiSettle ==
    /\ sai.status = "open"
    /\ \E i \in 1..Len(sai.instances) : sai' = SaiWith(i, settle(sai.instances[i]))
    /\ UNCHANGED exceptSai

SaiClearLocals ==
    /\ sai.status = "open"
    /\ \E i \in 1..Len(sai.instances) : sai' = SaiWith(i, clear_locals(sai.instances[i]))
    /\ UNCHANGED exceptSai

SaiAggregateReturnExpressions ==
    /\ sai.status = "open"
    /\ \E i \in 1..Len(sai.instances) :
          sai' = SaiWith(i, aggregate_return_expressions(sai.instances[i]))
    /\ UNCHANGED exceptSai

SaiMarkFlushed ==
    /\ sai.status = "open"
    /\ \E i \in 1..Len(sai.instances) : sai' = SaiWith(i, mark_flushed(sai.instances[i]))
    /\ UNCHANGED exceptSai

SaiFlush ==
    /\ sai.status = "open"
    /\ LET flushed == flush_instances(sai.instances)
       IN  sai' = IF flushed.ok
                  THEN [sai EXCEPT !.instances = flushed.instances,
                                   !.blocks = @ \cup flushed.blocks]
                  ELSE SaiAbort
    /\ UNCHANGED exceptSai

\* SpecApplicationInstances::close and the insert_spec that follows it in
\* analyze_specialization.
SaiClose ==
    /\ sai.status = "open"
    /\ LET n == Len(sai.instances)
           cleared == [i \in 1..n |-> clear_locals(sai.instances[i])]
           aggregated == [i \in 1..n |-> aggregate_return_expressions(cleared[i].instance)]
           flushed == flush_instances(InstancesOf(aggregated))
       IN  sai' = IF /\ ~sai.is_settled
                     /\ AllOk(cleared)
                     /\ AllOk(aggregated)
                     /\ flushed.ok
                     /\ sai.blocks \cup flushed.blocks # {}
                     /\ ~sai.table
                  THEN [sai EXCEPT !.instances = flushed.instances,
                                   !.blocks = @ \cup flushed.blocks,
                                   !.is_settled = TRUE,
                                   !.table = TRUE]
                  ELSE SaiAbort
    /\ UNCHANGED exceptSai

SaiNext ==
    \/ SaiPopulate \/ SaiSettle \/ SaiClearLocals \/ SaiAggregateReturnExpressions
    \/ SaiMarkFlushed \/ SaiFlush \/ SaiClose

(***************************************************************************)
(* The analysis of one application instance's body (core.rs). The body is  *)
(* a table of expressions indexed by ExprId, as in the FIR; the native     *)
(* stack of visit_expr activations is the sequence ai.work, whose head is  *)
(* the step that runs next. A value kind is the runtime kind of an element *)
(* or of the content of an array: the bodies never resize an array.        *)
(***************************************************************************)
\* ComputeKind::is_dynamic
is_dynamic(compute_kind) ==
    compute_kind.kind = "Quantum" /\ compute_kind.value_kind = "Dynamic"

\* ValueKind::new_static_from_type
new_static_from_type(ty) == "Static"

\* ComputeKind::new_with_runtime_features
new_with_runtime_features(runtime_features, value_kind) ==
    QuantumProperties(runtime_features, value_kind)

\* ComputeKind::aggregate_runtime_features: the features of other are added,
\* the value kind of self is kept (the default one if self was classical).
aggregate_runtime_features(self, other, default_value_kind) ==
    IF other.kind = "Classical" THEN self
    ELSE IF self.kind = "Classical"
    THEN QuantumProperties(other.runtime_features, default_value_kind)
    ELSE QuantumProperties(self.runtime_features \cup other.runtime_features,
                           self.value_kind)

\* ComputeKind::aggregate and the free function aggregate_compute_kind:
\* features are added and the value kind is dynamic if either one is.
aggregate(self, other) ==
    IF other.kind = "Classical" THEN self
    ELSE IF self.kind = "Classical" THEN other
    ELSE QuantumProperties(self.runtime_features \cup other.runtime_features,
                           IF "Dynamic" \in {self.value_kind, other.value_kind}
                           THEN "Dynamic" ELSE "Static")

\* LocalsComputeKindMap::aggregate_compute_kind
aggregate_compute_kind(locals_map, local_var_id, delta) ==
    [locals_map EXCEPT ![local_var_id].compute_kind = aggregate(@, delta)]

\* ---- the expressions of a body
AiExpr(kind, sub, var, ty) == [kind |-> kind, sub |-> sub, var |-> var, ty |-> ty]
AiLit == AiExpr("Lit", <<>>, "", "Int")
AiItem == AiExpr("Item", <<>>, "", "Arrow")
AiVar(var, ty) == AiExpr("Var", <<>>, var, ty)
AiCall(callee, args, ty) == AiExpr("Call", <<callee, args>>, "", ty)
AiIf(condition, body) == AiExpr("If", <<condition, body>>, "", "Unit")
AiIfElse(condition, body, otherwise) ==
    AiExpr("If", <<condition, body, otherwise>>, "", "Unit")
AiWhile(condition, block) == AiExpr("While", <<condition, block>>, "", "Unit")
AiAssign(assignee, value) == AiExpr("Assign", <<assignee, value>>, "", "Unit")
AiAssignIndex(array, index, value) ==
    AiExpr("AssignIndex", <<array, index, value>>, "", "Unit")
AiBlock(stmts) == AiExpr("Block", stmts, "", "Unit")

AiShapes == {"if_assign", "if_assign_index", "if_else_calls", "while_if",
             "local_callee"}

\* The bodies analyzed, the last expression being the block of the body:
\*   if_assign        if c { set x = 0; } x
\*   if_assign_index  if c { set arr w/= 0 <- 0; } arr
\*   if_else_calls    if c { Foo(0); } else { Foo(0); } Foo(0)
\*   while_if         while c { if d { Foo(0); } set x = 0; } Foo(x)
\*   local_callee     if c { f(0); } f(0)
\* ty is the type of the calls and of the local x.
AiBody(shape, ty) ==
    CASE shape = "if_assign" ->
           << AiVar("c", "Bool"), AiVar("x", ty), AiLit, AiAssign(2, 3),
              AiBlock(<<4>>), AiIf(1, 5), AiVar("x", ty), AiBlock(<<6, 7>>) >>
      [] shape = "if_assign_index" ->
           << AiVar("c", "Bool"), AiVar("arr", "Array"), AiLit, AiLit,
              AiAssignIndex(2, 3, 4), AiBlock(<<5>>), AiIf(1, 6),
              AiVar("arr", "Array"), AiBlock(<<7, 8>>) >>
      [] shape = "if_else_calls" ->
           << AiVar("c", "Bool"), AiItem, AiLit, AiCall(2, 3, ty), AiBlock(<<4>>),
              AiItem, AiLit, AiCall(6, 7, ty), AiBlock(<<8>>), AiIfElse(1, 5, 9),
              AiItem, AiLit, AiCall(11, 12, ty), AiBlock(<<10, 13>>) >>
      [] shape = "while_if" ->
           << AiVar("c", "Bool"), AiVar("d", "Bool"), AiItem, AiLit,
              AiCall(3, 4, ty), AiBlock(<<5>>), AiIf(2, 6), AiVar("x", ty), AiLit,
              AiAssign(8, 9), AiBlock(<<7, 10>>), AiWhile(1, 11), AiItem,
              AiVar("x", ty), AiCall(13, 14, ty), AiBlock(<<12, 15>>) >>
      [] shape = "local_callee" ->
           << AiVar("c", "Bool"), AiVar("f", "Arrow"), AiLit, AiCall(2, 3, ty),
              AiBlock(<<4>>), AiIf(1, 5), AiVar("f", "Arrow"), AiLit,
              AiCall(7, 8, ty), AiBlock(<<6, 9>>) >>

\* The compute kind derive_application_compute_kind gives the application of
\* a static callee: classical, quantum with a static value, or quantum with
\* a dynamic value (never for a callee whose output is Unit).
AiApplications(ty) ==
    {Classical,
     QuantumProperties({"ForwardBranchingOnDynamicValue"}, "Static")}
    \cup (IF ty = "Unit" THEN {}
          ELSE {QuantumProperties({"UseOfDynamicQubit"}, "Dynamic")})

\* LocalsComputeKindMap of a new instance: the conditions c and d and the
\* callable f are bound to dynamic or to static values.
AiLocal(ty, dynamic) ==
    [ty |-> ty,
     compute_kind |->
        IF dynamic
        THEN QuantumProperties(
                 derive_runtime_features_for_value_kind_associated_to_type(
                     new_dynamic_from_type(ty), ty),
                 new_dynamic_from_type(ty))
        ELSE Classical]
AiLocals(ty, c, d) ==
    [v \in {"c", "d", "f", "x", "arr"} |->
        CASE v = "c" -> AiLocal("Bool", c)
          [] v = "d" -> AiLocal("Bool", d)
          [] v = "f" -> AiLocal("Arrow", c)
          [] v = "x" -> AiLocal(ty, FALSE)
          [] v = "arr" -> AiLocal("Array", FALSE)]

AiTask(op, id, within) == [op |-> op, id |-> id, within |-> within]
NoExprs == [id \in {} |-> Classical]
AiNone ==
    [status |-> "idle", body |-> <<>>, application |-> Classical,
     locals_map |-> AiLocals("Int", FALSE, FALSE),
     active_dynamic_scopes |-> <<>>, exprs |-> NoExprs, work |-> <<>>,
     entered |-> NoExprs, left |-> NoExprs]
AiIdle == ai = AiNone

\* ApplicationInstance::new and the visit of the body's block that follows it
AiInit ==
    \E shape \in AiShapes, ty \in {"Unit", "Int", "Qubit", "Result"},
       c \in BOOLEAN, d \in BOOLEAN :
      \E application \in AiApplications(ty) :
        ai = [AiNone EXCEPT
                !.status = "visiting",
                !.body = AiBody(shape, ty),
                !.application = application,
                !.locals_map = AiLocals(IF ty = "Unit" THEN "Int" ELSE ty, c, d),
                !.work = << AiTask("visit", Len(AiBody(shape, ty)), FALSE) >>]

\* the scopes pushed by analyze_expr_if / analyze_expr_while after the
\* condition was visited
push_dynamic_scope_Always(active_dynamic_scopes, condition_expr_id, within_dynamic_scope) ==
    Append(active_dynamic_scopes, condition_expr_id)
push_dynamic_scope(active_dynamic_scopes, condition_expr_id, within_dynamic_scope) ==
    IF within_dynamic_scope
    THEN Append(active_dynamic_scopes, condition_expr_id)
    ELSE active_dynamic_scopes

\* analyze_expr_call after the callee and the arguments were visited;
\* application is what analyze_expr_call_with_static_callee returns
analyze_expr_call_NoScope(active_dynamic_scopes, callee, args, application, expr_type) ==
    LET called == IF is_dynamic(callee)
                  THEN QuantumProperties({"CallToDynamicCallee"},
                                         new_dynamic_from_type(expr_type))
                  ELSE application
        typed == IF called.kind = "Quantum"
                 THEN QuantumProperties(
                        called.runtime_features \cup
                          derive_runtime_features_for_value_kind_associated_to_type(
                              called.value_kind, expr_type),
                        called.value_kind)
                 ELSE called
        default_value_kind == new_static_from_type(expr_type)
    IN  aggregate_runtime_features(
            aggregate_runtime_features(typed, callee, default_value_kind),
            args, default_value_kind)
analyze_expr_call(active_dynamic_scopes, callee, args, application, expr_type) ==
    LET called == IF is_dynamic(callee)
                  THEN QuantumProperties({"CallToDynamicCallee"},
                                         new_dynamic_from_type(expr_type))
                  ELSE application
        typed == IF called.kind = "Quantum"
                 THEN QuantumProperties(
                        called.runtime_features \cup
                          derive_runtime_features_for_value_kind_associated_to_type(
                              called.value_kind, expr_type),
                        called.value_kind)
                 ELSE called
        default_value_kind == new_static_from_type(expr_type)
        Feature(f) == new_with_runtime_features({f}, default_value_kind)
        branching == aggregate_runtime_features(
                         typed, Feature("ForwardBranchingOnDynamicValue"),
                         default_value_kind)
        qubit == IF expr_type = "Qubit"
                 THEN aggregate_runtime_features(
                          branching, Feature("DynamicQubitAllocation"),
                          default_value_kind)
                 ELSE branching
        result == IF expr_type = "Result"
                  THEN aggregate_runtime_features(
                           qubit, Feature("DynamicResultAllocation"),
                           default_value_kind)
                  ELSE qubit
        scoped == IF active_dynamic_scopes # <<>> THEN result ELSE typed
    IN  aggregate_runtime_features(
            aggregate_runtime_features(scoped, callee, default_value_kind),
            args, default_value_kind)

\* update_locals_compute_kind for an assignee that is a local: the compute
\* kind aggregated to the local's entry of the locals map
update_locals_compute_kind(active_dynamic_scopes, local_type, value) ==
    LET value_kind == IF value.kind = "Quantum" THEN value.value_kind
                      ELSE new_static_from_type(local_type)
        based == aggregate_runtime_features(Classical, value, value_kind)
        dynamic_value_kind == new_dynamic_from_type(local_type)
        scoped == IF active_dynamic_scopes # <<>>
                  THEN aggregate(based,
                         new_with_runtime_features(
                           derive_runtime_features_for_value_kind_associated_to_type(
                               dynamic_value_kind, local_type),
                           dynamic_value_kind))
                  ELSE based
    IN  IF scoped.kind = "Quantum"
        THEN QuantumProperties(
               scoped.runtime_features \cup
                 derive_runtime_features_for_value_kind_associated_to_type(
                     scoped.value_kind, local_type),
               scoped.value_kind)
        ELSE scoped

\* analyze_expr_assign_index: the compute kind aggregated to the array's
\* entry of the locals map
assign_index_update(replacement) ==
    LET updated == aggregate_runtime_features(Classical, replacement, "Static")
    IN  IF is_dynamic(replacement)
        THEN QuantumProperties(updated.runtime_features, "Dynamic")
        ELSE updated

\* the aggregation of the compute kinds of sub-expressions, in order
RECURSIVE AggregateAll(_, _, _)
AggregateAll(exprs, ids, default_value_kind) ==
    IF ids = <<>> THEN Classical
    ELSE aggregate_runtime_features(
             AggregateAll(exprs, SubSeq(ids, 1, Len(ids) - 1), default_value_kind),
             exprs[ids[Len(ids)]], default_value_kind)

AiRunning == ai.status = "visiting" /\ ai.work # <<>>
AiHead == Head(ai.work)
AiNode == ai.body[AiHead.id]
\* visit_expr returns: insert_expr_compute_kind, and the activation ends
AiReturn(compute_kind, locals_map, scopes) ==
    ai' = [ai EXCEPT
             !.exprs = @ @@ (AiHead.id :> compute_kind),
             !.left = @ @@ (AiHead.id :> scopes),
             !.locals_map = locals_map,
             !.active_dynamic_scopes = scopes,
             !.work = Tail(@)]

\* visit_expr is entered: the sub-expressions that are visited first
AiVisitExpr ==
    /\ AiRunning /\ AiHead.op = "visit"
    /\ LET first == IF AiNode.kind \in {"If", "While"}
                    THEN << AiTask("visit", AiNode.sub[1], FALSE),
                            AiTask("scope", AiHead.id, FALSE) >>
                    ELSE [i \in 1..Len(AiNode.sub) |->
                            AiTask("visit", AiNode.sub[i], FALSE)]
                         \o << AiTask("analyze", AiHead.id, FALSE) >>
       IN  ai' = [ai EXCEPT
                    !.entered = @ @@ (AiHead.id :> ai.active_dynamic_scopes),
                    !.work = first \o Tail(@)]
    /\ UNCHANGED exceptAi

\* analyze_expr_if, analyze_expr_while: the condition was visited
AiEnterScope ==
    /\ AiRunning /\ AiHead.op = "scope"
    /\ LET condition_expr_id == AiNode.sub[1]
           within_dynamic_scope == is_dynamic(ai.exprs[condition_expr_id])
       IN  ai' = [ai EXCEPT
                    !.active_dynamic_scopes =
                        push_dynamic_scope(@, condition_expr_id, within_dynamic_scope),
                    !.work = [i \in 1..(Len(AiNode.sub) - 1) |->
                                AiTask("visit", AiNode.sub[i + 1], FALSE)]
                             \o << AiTask("analyze", AiHead.id, within_dynamic_scope) >>
                             \o Tail(@)]
    /\ UNCHANGED exceptAi

\* analyze_expr_if, analyze_expr_while: the branches were visited; the scope
\* is popped and the compute kinds are aggregated
AiLeaveScope ==
    /\ AiRunning /\ AiHead.op = "analyze" /\ AiNode.kind \in {"If", "While"}
    /\ LET condition_expr_id == AiNode.sub[1]
           scopes == ai.active_dynamic_scopes
           aggregated == AggregateAll(ai.exprs, AiNode.sub, "Static")
           any_dynamic == \E i \in 1..Len(AiNode.sub) : is_dynamic(ai.exprs[AiNode.sub[i]])
           compute_kind ==
               IF AiNode.kind = "If" /\ any_dynamic
               THEN aggregate(aggregated,
                      QuantumProperties(
                        derive_runtime_features_for_value_kind_associated_to_type(
                            new_dynamic_from_type(AiNode.ty), AiNode.ty),
                        new_dynamic_from_type(AiNode.ty)))
               ELSE aggregated
       IN  IF AiHead.within /\ (scopes = <<>> \/ Top(scopes) # condition_expr_id)
           THEN ai' = [ai EXCEPT !.status = "assert"]
           ELSE AiReturn(compute_kind, ai.locals_map,
                         IF AiHead.within THEN Pop(scopes) ELSE scopes)
    /\ UNCHANGED exceptAi

AiAnalyzeCall ==
    /\ AiRunning /\ AiHead.op = "analyze" /\ AiNode.kind = "Call"
    /\ AiReturn(analyze_expr_call(ai.active_dynamic_scopes, ai.exprs[AiNode.sub[1]],
                                  ai.exprs[AiNode.sub[2]], ai.application, AiNode.ty),
                ai.locals_map, ai.active_dynamic_scopes)
    /\ UNCHANGED exceptAi

AiAnalyzeAssign ==
    /\ AiRunning /\ AiHead.op = "analyze" /\ AiNode.kind = "Assign"
    /\ LET local_var_id == ai.body[AiNode.sub[1]].var
           updated == update_locals_compute_kind(
                          ai.active_dynamic_scopes, ai.locals_map[local_var_id].ty,
                          ai.exprs[AiNode.sub[2]])
       IN  AiReturn(aggregate_runtime_features(Classical, updated, "Static"),
                    aggregate_compute_kind(ai.locals_map, local_var_id, updated),
                    ai.active_dynamic_scopes)
    /\ UNCHANGED exceptAi

AiAnalyzeAssignIndex ==
    /\ AiRunning /\ AiHead.op = "analyze" /\ AiNode.kind = "AssignIndex"
    /\ LET local_var_id == ai.body[AiNode.sub[1]].var
           index == ai.exprs[AiNode.sub[2]]
           replacement == ai.exprs[AiNode.sub[3]]
           aggregated == aggregate_runtime_features(
                             aggregate_runtime_features(Classical, index, "Static"),
                             replacement, "Static")
           compute_kind ==
               IF is_dynamic(index)
               THEN aggregate_runtime_features(
                        aggregated,
                        new_with_runtime_features({"UseOfDynamicIndex"}, "Static"),
                        "Static")
               ELSE aggregated
       IN  AiReturn(compute_kind,
                    aggregate_compute_kind(ai.locals_map, local_var_id,
                                           assign_index_update(replacement)),
                    ai.active_dynamic_scopes)
    /\ UNCHANGED exceptAi

\* literals, items, locals (analyze_expr_var) and blocks (visit_block)
AiAnalyzeLeaf ==
    /\ AiRunning /\ AiHead.op = "analyze"
    /\ AiNode.kind \in {"Lit", "Item", "Var", "Block"}
    /\ AiReturn(CASE AiNode.kind = "Var" -> ai.locals_map[AiNode.var].compute_kind
                  [] AiNode.kind = "Block" ->
                       AggregateAll(ai.exprs, AiNode.sub, new_static_from_type(AiNode.ty))
                  [] OTHER -> Classical,
                ai.locals_map, ai.active_dynamic_scopes)
    /\ UNCHANGED exceptAi

\* ApplicationInstance::settle once the body was visited
AiSettle ==
    /\ ai.status = "visiting" /\ ai.work = <<>>
    /\ ai' = [ai EXCEPT !.status = IF ai.active_dynamic_scopes = <<>>
                                   THEN "settled" ELSE "assert"]
    /\ UNCHANGED exceptAi

AiNext ==
    \/ AiVisitExpr \/ AiEnterScope \/ AiLeaveScope \/ AiAnalyzeCall
    \/ AiAnalyzeAssign \/ AiAnalyzeAssignIndex \/ AiAnalyzeLeaf \/ AiSettle


ExIdle == RsIdle /\ CxIdle /\ MgIdle /\ SaiIdle /\ AiIdle

Init == CkIdle /\ RcaInit /\ TbIdle /\ ExIdle
Next ==
    \/ New \/ CdVisitItem \/ CdVisitStmt \/ CdPop \/ CdDone
    \/ PreSeed \/ PreSeedDone
    \/ AnalyzeNonCallable \/ AnalyzeIntrinsicCallable \/ AnalyzeNonIntrinsicCallable
    \/ AnalyzeCall \/ SimulateStmt \/ SettleInstance \/ CloseSpecialization
    \/ AnalyzePackageDone \/ Flush \/ Update
Spec == Init /\ [][Next]_vars

CkNext == CkVisitStmt \/ CkReturn
InitCk == CkInit /\ RcaIdle /\ TbIdle /\ ExIdle
SpecCk == InitCk /\ [][CkNext]_vars

(***************************************************************************)
(* The store's insert operations, called freely (SpecStore).               *)
(***************************************************************************)
StoreProgram ==
    [p \in PackageIds |->
        IF p = 0 THEN << Namespace >>
        ELSE << Function(1, FALSE, <<Expr(Call(LibId, a))>>) >>]
StoreTables ==
    { ApplicationsTable(EmptyProperties, <<EmptyProperties>>),
      create_cycled_function_specialization_applications_table(NoSpec, 1, FALSE) }
StoreInit ==
    /\ program = StoreProgram
    /\ phase = "store"
    /\ mode = [op |-> "new", package |-> 0]
    /\ cd = NewCycleDetector(0)
    /\ pending = {}
    /\ reported = {}
    /\ scaffolding = initialize_packages
    /\ compute_properties = EmptyComputeProperties
    /\ an = NoAnalysis
    /\ snapshot = EmptyComputeProperties
    /\ updates = 0

StoreInsertItem ==
    /\ phase = "store"
    /\ \E p \in PackageIds : \E i \in ItemIds(p) :
       \E value \in {NonCallable} \cup
                    { Specializations(IndexMapInsert(VacantItem.specs, "Body", t)) :
                        t \in StoreTables } :
          LET inserted == insert_item(scaffolding, p, i, value)
          IN  /\ scaffolding' = inserted.store
              /\ phase' = IF inserted.ok THEN phase ELSE "abort"
    /\ UNCHANGED <<program, mode, cd, pending, reported, compute_properties, an,
                   snapshot, updates>>
    /\ UNCHANGED exceptRca

StoreInsertSpec ==
    /\ phase = "store"
    /\ \E p \in PackageIds : \E i \in ItemIds(p) : \E k \in {"Body", "Adj"} :
       \E value \in StoreTables :
          LET inserted == insert_spec(scaffolding, GlobalSpecId(p, i, k), value)
          IN  /\ scaffolding' = inserted.store
              /\ phase' = IF inserted.ok THEN phase ELSE "abort"
    /\ UNCHANGED <<program, mode, cd, pending, reported, compute_properties, an,
                   snapshot, updates>>
    /\ UNCHANGED exceptRca

StoreInsertBlock ==
    /\ phase = "store"
    /\ \E p \in PackageIds : \E b \in DeclaredBlocks(p) : \E value \in StoreTables :
          scaffolding' = insert_block(scaffolding, p, b, value)
    /\ UNCHANGED <<program, phase, mode, cd, pending, reported, compute_properties,
                   an, snapshot, updates>>
    /\ UNCHANGED exceptRca

StoreInsertStmt ==
    /\ phase = "store"
    /\ \E p \in PackageIds : \E t \in StmtIds(p) : \E value \in StoreTables :
          scaffolding' = insert_stmt(scaffolding, p, t, value)
    /\ UNCHANGED <<program, phase, mode, cd, pending, reported, compute_properties,
                   an, snapshot, updates>>
    /\ UNCHANGED exceptRca

StoreInsertExpr ==
    /\ phase = "store"
    /\ \E p \in PackageIds : \E t \in StmtIds(p) : \E value \in StoreTables :
          scaffolding' = insert_expr(scaffolding, p, t, value)
    /\ UNCHANGED <<program, phase, mode, cd, pending, reported, compute_properties,
                   an, snapshot, updates>>
    /\ UNCHANGED exceptRca

StoreNext ==
    \/ StoreInsertItem \/ StoreInsertSpec \/ StoreInsertBlock
    \/ StoreInsertStmt \/ StoreInsertExpr
InitStore == CkIdle /\ StoreInit /\ TbIdle /\ ExIdle
SpecStore == InitStore /\ [][StoreNext]_vars

InitTb == CkIdle /\ RcaIdle /\ TbInit /\ ExIdle
SpecTb == InitTb /\ [][TbNext]_vars

InitRs == CkIdle /\ RcaIdle /\ TbIdle /\ RsInit /\ CxIdle /\ MgIdle /\ SaiIdle /\ AiIdle

InitMg == CkIdle /\ RcaIdle /\ TbIdle /\ RsIdle /\ CxIdle /\ MgInit /\ SaiIdle /\ AiIdle

InitSai == CkIdle /\ RcaIdle /\ TbIdle /\ RsIdle /\ CxIdle /\ MgIdle /\ SaiInit /\ AiIdle

InitAi == CkIdle /\ RcaIdle /\ TbIdle /\ RsIdle /\ CxIdle /\ MgIdle /\ SaiIdle /\ AiInit
SpecAi == InitAi /\ [][AiNext]_vars
SpecSai == InitSai /\ [][SaiNext]_vars
SpecMg == InitMg /\ [][MgNext]_vars
SpecRs == InitRs /\ [][RsNext]_vars

(***************************************************************************)
(* Properties of the capability checker (under SpecCk).                    *)
(***************************************************************************)
\* The runtime features of statement i, if the store says it is quantum.
QuantumFeatures(i) ==
    IF ck_package[i].table.inherent.kind = "Quantum"
    THEN ck_package[i].table.inherent.runtime_features ELSE {}
\* The statements visit_stmt has been called on.
Visited == { i \in 1..(ck_pos - 1) : ck_package[i].block = 0 }
ErrorsOf(i) ==
    { ck_errors[n] : n \in { m \in 1..Len(ck_errors) : ck_errors[m].span = StmtSpan(i) } }

\* C1: when the target has every capability, the checker reports no
\* diagnostic, whatever the package and the store hold.
C1_AllCapabilitiesNoErrors ==
    ck_target = RuntimeCapabilityFlags => ck_errors = << >>
C1_Witness ==
    /\ ck_pc = "done"
    /\ ck_target = RuntimeCapabilityFlags
    /\ \E i \in 1..Len(ck_package) :
          {"UseOfDynamicBool", "UseOfDynamicInt"} \subseteq QuantumFeatures(i)

\* C2: for every visited statement and every capability its features need
\* and the target lacks, there is a diagnostic on that statement for a
\* feature needing that capability.
C2_EveryMissingCapabilityReported ==
    \A i \in Visited :
        \A c \in runtime_capabilities(QuantumFeatures(i)) \ ck_target :
            \E e \in ErrorsOf(i) : c \in FeatureCapabilities(e.kind)

\* C3: every diagnostic on a statement is for a runtime feature of that
\* statement that needs a capability the target lacks; a feature whose
\* capabilities the target supports yields none.
C3_ErrorsOnlyForMissing ==
    \A n \in 1..Len(ck_errors) :
        /\ \E i \in Visited :
              /\ ck_errors[n].span = StmtSpan(i)
              /\ ck_errors[n].kind \in QuantumFeatures(i)
        /\ FeatureCapabilities(ck_errors[n].kind) \ ck_target # {}
C3_Witness ==
    /\ ck_pc = "done"
    /\ ck_target = {"ForwardBranching", "IntegerComputations"}
    /\ Len(ck_package) = 1
    /\ QuantumFeatures(1) = {"UseOfDynamicBool", "UseOfDynamicDouble"}
    /\ ck_errors = <<[kind |-> "UseOfDynamicDouble", span |-> StmtSpan(1)]>>

\* The only statement of the package with runtime features is statement i, a
\* statement of the body block whose one feature is UseOfDynamicBool (as
\* `let b = M(q) == Zero;` after `use q = Qubit();`).
SoleDynamicBool(i) ==
    /\ ck_package[i].block = 0
    /\ QuantumFeatures(i) = {"UseOfDynamicBool"}
    /\ \A j \in 1..Len(ck_package) : j # i => QuantumFeatures(j) = {}

\* C17 (as amended): for a package whose only dynamic statement is a binding
\* such as let b = M(q) == Zero; checked against the empty capability set,
\* exactly one diagnostic is reported, of kind UseOfDynamicBool, and its span
\* is the span of the whole binding statement.
C17_DynamicBoolSpansStatement ==
    \A i \in 1..Len(ck_package) :
        (ck_pc = "done" /\ ck_target = {} /\ SoleDynamicBool(i)) =>
            ck_errors = <<[kind |-> "UseOfDynamicBool", span |-> StmtSpan(i)]>>
\* C17 as stated: ... and its span is the span of the initializer
\* sub-expression M(q) == Zero.
C17_DynamicBoolSpansInitializer ==
    \A i \in 1..Len(ck_package) :
        (ck_pc = "done" /\ ck_target = {} /\ SoleDynamicBool(i)) =>
            ck_errors = <<[kind |-> "UseOfDynamicBool", span |-> InitSpan(i)]>>
C17_Witness ==
    /\ ck_pc = "done"
    /\ ck_target = {}
    /\ Len(ck_package) = MaxStmts
    /\ SoleDynamicBool(MaxStmts)
    /\ ck_package[1].table.inherent = Quantum({})
    /\ Len(ck_errors) = 1
    /\ ck_errors[1].span = StmtSpan(MaxStmts)
    /\ ck_errors[1].span # InitSpan(MaxStmts)

\* The place of a diagnostic kind in the fixed order of kinds.
KindRank(kind) == CHOOSE r \in 1..Len(ErrorOrder) : ErrorOrder[r] = kind
\* The features of statement i that have a diagnostic kind and need a
\* capability the target lacks.
Reportable(i) ==
    { f \in QuantumFeatures(i) :
        /\ \E r \in 1..Len(ErrorOrder) : ErrorOrder[r] = f
        /\ FeatureCapabilities(f) \ ck_target # {} }

\* C18: the diagnostics are ordered by statement and, within a statement, by
\* kind in the fixed order, so that no kind repeats within a statement; once
\* the checker returned, every statement of the body block has all its
\* diagnostics, whatever the statements before it produced; and the two
\* statements let s = M(q)==Zero ? 1 | 2; let a = [0, size = s]; against the
\* empty capability set give Bool, Int and then Bool, Int, sized-array.
C18_StatementThenKindOrder ==
    /\ \A m, n \in 1..Len(ck_errors) :
          m < n =>
              \/ ck_errors[m].span.lo < ck_errors[n].span.lo
              \/ /\ ck_errors[m].span = ck_errors[n].span
                 /\ KindRank(ck_errors[m].kind) < KindRank(ck_errors[n].kind)
    /\ ck_pc = "done" =>
          \A i \in 1..Len(ck_package) :
              ck_package[i].block = 0 =>
                  { e.kind : e \in ErrorsOf(i) } = Reportable(i)
    /\ ( /\ ck_pc = "done"
         /\ ck_target = {}
         /\ Len(ck_package) = 2
         /\ ck_package[2].block = 0
         /\ QuantumFeatures(1) = {"UseOfDynamicBool", "UseOfDynamicInt"}
         /\ QuantumFeatures(2) = {"UseOfDynamicBool", "UseOfDynamicInt",
                                  "UseOfDynamicallySizedArray"} )
          => ck_errors =
                << [kind |-> "UseOfDynamicBool", span |-> StmtSpan(1)],
                   [kind |-> "UseOfDynamicInt", span |-> StmtSpan(1)],
                   [kind |-> "UseOfDynamicBool", span |-> StmtSpan(2)],
                   [kind |-> "UseOfDynamicInt", span |-> StmtSpan(2)],
                   [kind |-> "UseOfDynamicallySizedArray", span |-> StmtSpan(2)] >>
C18_Witness ==
    /\ ck_pc = "done"
    /\ ck_target = {}
    /\ Len(ck_package) = 2
    /\ ck_package[2].block = 0
    /\ QuantumFeatures(1) = {"UseOfDynamicBool", "UseOfDynamicInt"}
    /\ QuantumFeatures(2) = {"UseOfDynamicBool", "UseOfDynamicInt",
                             "UseOfDynamicallySizedArray"}
    /\ Len(ck_errors) = 5

\* C19: once the checker returned, every statement of the package, the ones
\* nested in blocks inside another statement's expressions included, has a
\* diagnostic of its own for each of its features that has a diagnostic kind
\* and needs a capability the target lacks.
C19_NestedStatementsChecked ==
    ck_pc = "done" =>
        \A i \in 1..Len(ck_package) :
            \A f \in Reportable(i) : \E e \in ErrorsOf(i) : e.kind = f

\* C29: the checker decides the diagnostics of a statement from the inherent
\* compute kind of its table only: a statement whose inherent kind is
\* Classical has no diagnostic, and the diagnostics of a quantum statement are
\* those of its inherent features the target does not support, whatever the
\* entries for dynamic parameters hold.
C29_InherentKindOnly ==
    \A i \in Visited :
        /\ ck_package[i].table.inherent.kind = "Classical" => ErrorsOf(i) = {}
        /\ { e.kind : e \in ErrorsOf(i) } \subseteq
               ck_package[i].table.inherent.runtime_features
        /\ { e.kind : e \in ErrorsOf(i) } = Reportable(i)
C29_Witness ==
    /\ ck_pc = "done"
    /\ ck_target = {}
    /\ Len(ck_package) = 2
    /\ ck_package[2].block = 0
    /\ ck_package[1].table.inherent = Classical
    /\ ck_package[2].table.inherent = Quantum({"UseOfDynamicInt"})
    /\ \A i \in 1..2 :
          ck_package[i].table.dynamic_param_applications =
              << Quantum(QuantumFeatures(i) \cup DynamicParamFeatures) >>
    /\ ck_errors = <<[kind |-> "UseOfDynamicInt", span |-> StmtSpan(2)]>>

(***************************************************************************)
(* Properties of the analyzer (under Spec).                                *)
(***************************************************************************)
\* The specializations a package declares.
DeclaredSpecs(p) ==
    { GlobalSpecId(p, b[1], b[2]) : b \in DeclaredBlocks(p) }
\* The specializations of its own package a specialization calls through a
\* statically resolvable callee.
RECURSIVE CalleesFrom(_, _)
CalleesFrom(id, pc) ==
    IF pc > Len(SpecBlock(id)) THEN {}
    ELSE LET calls == CallsIn(SpecBlock(id)[pc].expr)
             locals == LocalsAt(program[id.package][id.item], SpecBlock(id), pc)
             resolved == { try_resolve_callee(calls[n], locals) : n \in 1..Len(calls) }
         IN  { GlobalSpecId(c.package, c.item, SpecKindOf(c.functor_app)) :
                 c \in { r \in resolved : r.tag = "Some" /\ r.package = id.package } }
             \cup CalleesFrom(id, pc + 1)
Callees(id) == CalleesFrom(id, 1) \cap DeclaredSpecs(id.package)
RECURSIVE ReachableFrom(_)
ReachableFrom(specs) ==
    LET more == specs \cup UNION { Callees(t) : t \in specs }
    IN  IF more = specs THEN specs ELSE ReachableFrom(more)
\* The specialization reaches a call to itself.
OnCycle(id) == id \in ReachableFrom(Callees(id))

\* C4: the main analysis never enters a specialization that is still being
\* analyzed, so the construction of the analysis does not recurse without bound.
C4_NoReentry ==
    /\ phase # "overflow"
    /\ \A m, n \in 1..Len(an.stack) : m # n => an.stack[m].spec # an.stack[n].spec

\* C5: once cycle detection of a package has returned, every declared
\* specialization of the package that reaches a call to itself is reported.
C5_EveryCycleReported ==
    phase = "preseed" =>
        \A id \in DeclaredSpecs(cd.package_id) : OnCycle(id) => id \in reported

\* C6: a reported specialization has no table when it is about to be
\* pre-seeded, and once the main analysis of any package runs every reported
\* specialization has its table and none is left to pre-seed.
C6_PreSeededBeforeAnalysis ==
    /\ phase = "preseed" =>
          \A id \in pending : find_specialization(scaffolding, id).tag = "None"
    /\ pending \subseteq reported
    /\ phase = "analyze" =>
          /\ pending = {}
          /\ \A id \in reported : find_specialization(scaffolding, id).tag = "Some"
C6_Witness ==
    /\ phase = "analyze"
    /\ mode.op = "new"
    /\ an.item > 1
    /\ pending = {}
    /\ \E x, y \in reported :
          /\ x.package # y.package
          /\ find_specialization(scaffolding, x).tag = "Some"
          /\ find_specialization(scaffolding, y).tag = "Some"

\* C7: after a run completed, every item has its entry (NonCallable, or a
\* table for each declared specialization) and every declared block and every
\* statement has a table.
C7_CompleteResults ==
    phase = "ready" =>
        \A p \in PackageIds :
            /\ compute_properties[p].present
            /\ \A i \in ItemIds(p) :
                  IF program[p][i].kind = "Namespace"
                  THEN compute_properties[p].items[i].tag = "NonCallable"
                  ELSE /\ compute_properties[p].items[i].tag = "Callable"
                       /\ \A k \in SpecKinds :
                             (program[p][i].specs[k].exists \/ (k = "Body"))
                                => SpecializationsScaffolding(
                                       compute_properties[p].items[i])[k].tag = "Some"
            /\ \A b \in DeclaredBlocks(p) : compute_properties[p].blocks[b].tag = "Some"
            /\ \A t \in StmtIds(p) : compute_properties[p].stmts[t].tag = "Some"

\* C9: after update_package_compute_properties(p) returned, the results of
\* every other package equal those before the update.
C9_UpdateFrame ==
    (phase = "ready" /\ mode.op = "update") =>
        \A q \in PackageIds \ {mode.package} : compute_properties[q] = snapshot[q]
C9_Witness ==
    /\ phase = "ready"
    /\ mode.op = "update"
    /\ mode.package = 1
    /\ Len(program[0]) = Len(LibCyclic)
    /\ compute_properties[0].items[1].tag = "NonCallable"
    /\ compute_properties[0].items[Len(LibCyclic)].body.tag = "Some"
    /\ compute_properties[1].items[1].body.tag = "Some"

\* C10: the table pre-seeded for a cyclic function with k input parameters
\* has empty inherent properties and exactly k dynamic-parameter entries, each
\* with exactly the feature CycledFunctionApplicationUsesDynamicArg and a
\* source of dynamism iff the output type is not Unit.
PreSeededFunctions ==
    { id \in reported \ pending : program[id.package][id.item].kind = "Function" }
C10_CycledFunctionTable ==
    phase \in {"preseed", "analyze", "flush"} =>
        \A id \in PreSeededFunctions :
            LET table == find_specialization(scaffolding, id)
                callable == program[id.package][id.item]
            IN  /\ table.tag = "Some"
                /\ table.inherent_properties = EmptyProperties
                /\ Len(table.dynamic_params_properties) = callable.params
                /\ \A n \in 1..Len(table.dynamic_params_properties) :
                      /\ table.dynamic_params_properties[n].runtime_features
                            = {"CycledFunctionApplicationUsesDynamicArg"}
                      /\ (table.dynamic_params_properties[n].dynamism_sources # {})
                            <=> ~callable.unit
C10_Witness ==
    /\ phase = "analyze"
    /\ \E id \in PreSeededFunctions :
          /\ program[id.package][id.item].params = Len(ArgNames)
          /\ program[id.package][id.item].unit
          /\ Len(find_specialization(scaffolding, id).dynamic_params_properties)
                = Len(ArgNames)
    /\ \E id \in PreSeededFunctions : ~program[id.package][id.item].unit

\* C11: the table pre-seeded for a cyclic operation specialization has the
\* inherent entry with exactly the feature
\* CycledOperationSpecializationApplication, static if the output type is Unit
\* and dynamic otherwise, and every dynamic-parameter entry equals the
\* inherent entry.
PreSeededOperations ==
    { id \in reported \ pending : program[id.package][id.item].kind = "Operation" }
C11_CycledOperationTable ==
    phase \in {"preseed", "analyze", "flush"} =>
        \A id \in PreSeededOperations :
            LET table == find_specialization(scaffolding, id)
                callable == program[id.package][id.item]
            IN  /\ table.tag = "Some"
                /\ table.inherent_properties.runtime_features
                      = {"CycledOperationSpecializationApplication"}
                /\ (table.inherent_properties.dynamism_sources = {}) <=> callable.unit
                /\ \A n \in 1..Len(table.dynamic_params_properties) :
                      table.dynamic_params_properties[n] = table.inherent_properties
C11_Witness ==
    /\ phase = "analyze"
    /\ \E id \in PreSeededOperations :
          LET table == find_specialization(scaffolding, id)
          IN  /\ ~program[id.package][id.item].unit
              /\ table.tag = "Some"
              /\ Len(table.dynamic_params_properties) >= 1
              /\ table.inherent_properties.dynamism_sources # {}

\* The expression a local holds before statement pc of a block: what the
\* last binding of the name gave it (the first element of the tuple for the
\* tuple pattern), looked up again while that is itself a local.
RECURSIVE HeldBy(_, _, _)
HeldBy(block, pc, v) ==
    IF pc <= 1 THEN Lit
    ELSE LET stmt == block[pc - 1]
             bound == IF stmt.pat.p = "Tuple" THEN stmt.expr.sub[1] ELSE stmt.expr
         IN  IF stmt.kind = "Local" /\ stmt.pat.p \in {"Bind", "Tuple"} /\ stmt.pat.var = v
             THEN IF bound.e = "VarLocal" THEN HeldBy(block, pc - 1, bound.var)
                  ELSE bound
             ELSE HeldBy(block, pc - 1, v)
\* The callee expressions of the calls of statement pc that are locals,
\* replaced by what the local holds.
LocalCallees(block, pc) ==
    LET calls == CallsIn(block[pc].expr)
    IN  { HeldBy(block, pc, calls[n].var) :
            n \in { m \in 1..Len(calls) : calls[m].e = "VarLocal" } }
\* The body calls its own callable through a local that holds it.
CallsItselfThroughLocal(id) ==
    /\ id.kind = "Body"
    /\ \E pc \in 1..Len(SpecBlock(id)) :
          VarItem(id.package, id.item) \in LocalCallees(SpecBlock(id), pc)

\* C14: a body that calls its own callable through a local (bound directly,
\* through a chain of locals, or by a tuple pattern) is reported by cycle
\* detection, detection does not fail on it, and it holds the cyclic table
\* when the main analysis runs.
C14_CycleThroughLocalDetected ==
    \A id \in DeclaredSpecs(LastPackage) :
        CallsItselfThroughLocal(id) =>
            /\ phase # "abort"
            /\ (phase = "preseed" /\ cd.package_id = id.package) => id \in reported
            /\ phase = "analyze" =>
                  find_specialization(scaffolding, id)
                      = create_cycled_function_specialization_applications_table(
                            program[id.package][id.item].specs[id.kind],
                            program[id.package][id.item].params,
                            program[id.package][id.item].unit)

\* The body calls its own callable by name somewhere other than as the whole
\* expression of an expression statement.
CallsItselfNested(id) ==
    /\ id.kind = "Body"
    /\ \E pc \in 1..Len(SpecBlock(id)) :
          LET stmt == SpecBlock(id)[pc]
              calls == CallsIn(stmt.expr)
          IN  /\ \E n \in 1..Len(calls) : calls[n] = VarItem(id.package, id.item)
              /\ (stmt.kind = "Local" \/ stmt.expr.e # "Call")

\* C15: a body whose call to its own callable is nested in a binding's
\* initializer, a return, a tuple, an if or a loop is reported by cycle
\* detection.
C15_NestedCycleDetected ==
    \A id \in DeclaredSpecs(LastPackage) :
        (CallsItselfNested(id) /\ phase = "preseed" /\ cd.package_id = id.package)
            => id \in reported

\* The package has a call whose callee is a closure, directly or held by a local.
HasClosureCallee(p) ==
    \E id \in DeclaredSpecs(p) : \E pc \in 1..Len(SpecBlock(id)) :
        \/ \E x \in LocalCallees(SpecBlock(id), pc) : x.e = "Closure"
        \/ LET calls == CallsIn(SpecBlock(id)[pc].expr)
           IN  \E n \in 1..Len(calls) : calls[n].e = "Closure"

\* C16: in a package that calls closures, cycle detection reports only
\* specializations that reach themselves through calls whose callee is not a
\* closure: a call of a closure marks nothing.
C16_ClosureNotFollowed ==
    (phase = "preseed" /\ HasClosureCallee(cd.package_id)) =>
        \A id \in reported : id.package = cd.package_id => OnCycle(id)

\* The visits of the body of specialization id the run has begun.
VisitsOf(id) == { n \in 1..Len(an.visits) : an.visits[n].spec = id }
\* The declared specializations of non-intrinsic callables that reach no call
\* to themselves and were not reported by cycle detection, with the number of
\* their input parameters.
NonCyclicSpecs ==
    { id \in UNION { DeclaredSpecs(p) : p \in PackageIds } :
        /\ ~program[id.package][id.item].intrinsic
        /\ ~OnCycle(id)
        /\ id \notin reported }
InputParamsOf(id) ==
    derive_specialization_input_params(
        program[id.package][id.item].specs[id.kind], program[id.package][id.item])

StackIds(d) == [i \in 1..Len(d.stack) |-> d.stack[i].id]

\* C30: the set and the vector of the cycle detector's call stack hold the
\* same specializations and none twice; a step that grows the stack pushes one
\* specialization that was not on it, a step that shrinks it pops the top and
\* removes that same specialization from the set, no step changes what lies
\* below the top; and the stack is empty whenever detection for a package has
\* finished.
C30_CallStackBalanced ==
    /\ [](/\ cd.set = { cd.stack[i].id : i \in 1..Len(cd.stack) }
          /\ Cardinality(cd.set) = Len(cd.stack)
          /\ (phase \in {"preseed", "analyze", "flush", "ready"} => cd.stack = << >>))
    /\ [][ \/ StackIds(cd') = StackIds(cd) /\ cd'.set = cd.set
           \/ /\ Len(cd'.stack) = Len(cd.stack) + 1
              /\ SubSeq(StackIds(cd'), 1, Len(cd.stack)) = StackIds(cd)
              /\ Top(cd'.stack).id \notin cd.set
              /\ cd'.set = cd.set \cup {Top(cd'.stack).id}
           \/ /\ cd.stack # << >>
              /\ StackIds(cd') = StackIds([cd EXCEPT !.stack = Pop(@)])
              /\ cd'.set = cd.set \ {Top(cd.stack).id} ]_vars
C30_Witness ==
    /\ phase = "detect"
    /\ Len(cd.stack) >= 2
    /\ cd.callables_with_cycles # {}

(***************************************************************************)
(* The driver of core.rs started on a package store (SpecCx), and the      *)
(* properties of its stack of analysis contexts.                           *)
(***************************************************************************)
\* The store handed to Analyzer::new holds no table, or the tables of the
\* specializations that are on a cycle.
CxInit ==
    /\ \E run \in {"all", "package"}, package \in PackageIds, cycles \in BOOLEAN :
          /\ run = "all" => package = 0
          /\ cx = [CxNone EXCEPT
                     !.run = run, !.package = package, !.status = "items",
                     !.specs = IF cycles
                               THEN { id \in UNION { DeclaredSpecs(p) : p \in PackageIds } :
                                        OnCycle(id) }
                               ELSE {}]
InitCx ==
    /\ CkIdle /\ TbIdle /\ RsIdle /\ MgIdle /\ SaiIdle /\ AiIdle
    /\ program \in Programs
    /\ phase = "idle"
    /\ mode = [op |-> "new", package |-> 0]
    /\ cd = NewCycleDetector(0)
    /\ pending = {}
    /\ reported = {}
    /\ scaffolding = EmptyStore
    /\ compute_properties = EmptyComputeProperties
    /\ an = NoAnalysis
    /\ snapshot = EmptyComputeProperties
    /\ updates = 0
    /\ CxInit
SpecCx == InitCx /\ [][CxNext]_vars

\* C27: the stack of analysis contexts is balanced. Every activation of
\* analyze_item and analyze_spec has the context it pushed, in the order of
\* the activations, and the context popped on exit is that one (no assertion
\* on a context fails); the context of an item holds a current specialization
\* context exactly while that one specialization is visited; contexts are
\* pushed and popped at the top only; and the stack is empty when
\* analyze_all or analyze_package returns, also after the analysis of a
\* callee nested in the analysis of its caller.
C27_ContextStackBalanced ==
    /\ [](/\ cx.status # "assert"
          /\ cx.status \in {"items", "top_level", "done"} =>
                /\ Len(cx.active_contexts) =
                      Len(cx.calls) + (IF cx.status = "top_level" THEN 1 ELSE 0)
                /\ \A n \in 1..Len(cx.calls) :
                      /\ cx.active_contexts[n].kind = "Item"
                      /\ cx.active_contexts[n].id = cx.calls[n].id
                      /\ cx.active_contexts[n].current_spec_context =
                            (IF cx.calls[n].step = "block" THEN cx.calls[n].kind
                             ELSE "None")
          /\ cx.status = "done" => cx.active_contexts = << >> /\ cx.calls = << >>)
    /\ [][LET before == cx.active_contexts
              after == cx.active_contexts'
          IN  \/ Len(after) = Len(before) + 1 /\ Pop(after) = before
              \/ Len(before) = Len(after) + 1 /\ Pop(before) = after
              \/ /\ Len(after) = Len(before)
                 /\ \A n \in 1..(Len(before) - 1) : after[n] = before[n]]_vars
C27_Witness ==
    /\ cx.status = "done"
    /\ cx.run = "package"
    /\ cx.depth >= 3
    /\ cx.active_contexts = << >>
    /\ GlobalSpecId(0, 3, "Body") \in cx.specs

(***************************************************************************)
(* Properties of the operations on application instances (under SpecSai).  *)
(***************************************************************************)
\* Instance i before and after a step that did not abort.
SaiStep(i) == [before |-> sai.instances[i], after |-> sai.instances'[i]]
SaiSteps == IF sai'.status = "open" THEN 1..Len(sai.instances) ELSE {}

\* C24 (as amended): the specialization's table is inserted only once all
\* k+1 instances are settled and flushed; an instance becomes settled only
\* while its stack of active dynamic scopes is empty; it becomes flushed only
\* when it is settled and its return list and its maps are empty; its locals
\* are cleared, its return expressions aggregated and its maps drained only
\* when it is settled, and its return expressions only while it is not
\* flushed; an operation that breaks one of these conditions aborts.
C24_AssertedOrder ==
    /\ [](sai.table =>
              /\ sai.is_settled
              /\ \A i \in 1..Len(sai.instances) :
                    sai.instances[i].is_settled /\ sai.instances[i].was_flushed)
    /\ [][\A i \in SaiSteps :
              LET before == SaiStep(i).before
                  after == SaiStep(i).after
              IN  /\ (~before.is_settled /\ after.is_settled) =>
                        before.active_dynamic_scopes = << >>
                  /\ (~before.was_flushed /\ after.was_flushed) =>
                        /\ after.is_settled
                        /\ after.return_expressions = << >>
                        /\ after.blocks = {}
                  /\ (before.locals /\ ~after.locals) => before.is_settled
                  /\ (before.return_expressions # << >>
                         /\ after.return_expressions = << >>) =>
                        before.is_settled /\ ~before.was_flushed
                  /\ (before.blocks # {} /\ after.blocks = {}) => before.is_settled]_vars
\* C24 as stated: ... in the order populate, settle, clear locals, aggregate
\* return expressions, flush, mark flushed; any other order aborts. An
\* instance that is settled is not populated any more, and its locals are
\* not cleared once it is flushed, in a step that does not abort.
C24_AnyOtherOrderAborts ==
    [][\A i \in SaiSteps :
          LET before == SaiStep(i).before
              after == SaiStep(i).after
          IN  /\ before.is_settled =>
                    /\ after.blocks \subseteq before.blocks
                    /\ after.active_dynamic_scopes = before.active_dynamic_scopes
                    /\ Len(after.return_expressions) <= Len(before.return_expressions)
              /\ before.was_flushed => after.locals = before.locals]_vars
C24_Witness ==
    /\ sai.status = "open"
    /\ sai.table
    /\ Len(sai.instances) = MaxInstances
    /\ sai.blocks = {1}

(***************************************************************************)
(* Properties of the merge of application instances (under SpecMg).        *)
(***************************************************************************)
\* C25: the merge goes through exactly when every block, statement and
\* expression the inherent instance recorded is recorded by each of the k
\* dynamic-parameter instances, and aborts otherwise; every set then stored
\* is keyed by an entity of the inherent instance and has the inherent entry
\* of that instance and exactly k dynamic-parameter entries, entry n being
\* the one instance n recorded for the entity.
C25_MergedInLockStep ==
    LET k == Len(mg.instances) - 1
        complete == \A kind \in MgKinds :
                        \A id \in DOMAIN mg.instances[1][kind] :
                            \A n \in 1..k : id \in DOMAIN mg.instances[n + 1][kind]
    IN  /\ mg.status = "saved" => complete
        /\ mg.status = "abort" => ~complete
        /\ mg.status = "saved" =>
              \A kind \in MgKinds :
                  /\ DOMAIN mg.store[kind] = DOMAIN mg.instances[1][kind]
                  /\ \A id \in DOMAIN mg.store[kind] :
                        /\ mg.store[kind][id].inherent = MgComputeKind(0, kind, id)
                        /\ Len(mg.store[kind][id].dynamic_param_applications) = k
                        /\ \A n \in 1..k :
                              mg.store[kind][id].dynamic_param_applications[n] =
                                  MgComputeKind(n, kind, id)
C25_Witness ==
    /\ mg.status = "saved"
    /\ Len(mg.instances) = 3
    /\ \A kind \in MgKinds :
          /\ DOMAIN mg.store[kind] = {1}
          /\ Len(mg.store[kind][1].dynamic_param_applications) = 2

(***************************************************************************)
(* Properties of the resolution of callees (under SpecRs).                 *)
(***************************************************************************)
\* The functors applied in a callee expression, outermost first, and the
\* expression under them.
RECURSIVE FunctorsOf(_)
FunctorsOf(expr) ==
    IF expr.e = "UnOp" THEN <<expr.functor>> \o FunctorsOf(expr.sub[1]) ELSE << >>
RECURSIVE CalleeUnder(_)
CalleeUnder(expr) == IF expr.e = "UnOp" THEN CalleeUnder(expr.sub[1]) ELSE expr
Count(fs, f) == Cardinality({ n \in 1..Len(fs) : fs[n] = f })

\* C28: the callee resolved for an expression is the callable under the
\* functors, with the adjoint flag toggled once per Adjoint (an even number of
\* them cancels) and the controlled flag set when at least one Controlled is
\* applied, whatever the order of the functors; a callee that does not
\* resolve stays unresolved under any functors.
C28_FunctorApplication ==
    rs_callee.tag # "Pending" =>
        LET fs == FunctorsOf(rs_expr)
            odd == Count(fs, "Adj") % 2 = 1
            ctl == Count(fs, "Ctl") >= 1
            callee == CalleeUnder(rs_expr)
        IN  CASE callee = VarItem(1, 1) ->
                    rs_callee = SomeCallee(CallableSpecializationId(
                                    1, FunctorApplication(odd, ctl)))
              [] callee = VarLocal("f") ->
                    rs_callee = SomeCallee(CallableSpecializationId(
                                    2, FunctorApplication(~odd, ctl)))
              [] OTHER -> rs_callee = NoCallee
C28_Witness ==
    /\ rs_expr = Functor("Ctl", Functor("Adj", Functor("Ctl",
                      Functor("Adj", VarItem(1, 1)))))
    /\ rs_callee = SomeCallee(CallableSpecializationId(
                        1, FunctorApplication(FALSE, TRUE)))

(***************************************************************************)
(* Properties of the tables the constructors build (under SpecTb).         *)
(***************************************************************************)
\* The inherent entry and the dynamic-parameter entries of a table, in
\* either representation (ApplicationsTable, ApplicationGeneratorSet).
TbInherent(table) ==
    IF "inherent" \in DOMAIN table THEN table.inherent
    ELSE table.inherent_properties
TbParams(table) ==
    IF "dynamic_param_applications" \in DOMAIN table
    THEN table.dynamic_param_applications
    ELSE table.dynamic_params_properties
\* The entry's value is dynamic.
TbDynamic(entry) ==
    IF "value_kind" \in DOMAIN entry THEN entry.value_kind = "Dynamic"
    ELSE IF "dynamism_sources" \in DOMAIN entry THEN entry.dynamism_sources # {}
    ELSE FALSE

\* C12: in every table built, each dynamic-parameter entry has at least the
\* runtime features of the inherent entry and is dynamic if the inherent
\* entry is.
C12_ParamsDominateInherent ==
    tb_table.by # "none" =>
        \A n \in 1..Len(TbParams(tb_table.table)) :
            /\ TbInherent(tb_table.table).runtime_features
                  \subseteq TbParams(tb_table.table)[n].runtime_features
            /\ TbDynamic(TbInherent(tb_table.table))
                  => TbDynamic(TbParams(tb_table.table)[n])

\* C13: every table built has one dynamic-parameter entry per input
\* parameter of the callable, and one more if the specialization has its own
\* input (the controls).
C13_OneEntryPerParam ==
    tb_table.by # "none" =>
        Len(TbParams(tb_table.table))
            = Len(tb_decl.input_params) + (IF tb_decl.input THEN 1 ELSE 0)

\* C20: in the table of an intrinsic callable, the entry of each parameter
\* has exactly the runtime features of the parameter's type, none for a
\* Result parameter, and is dynamic iff the output type is not Unit.
ImpliedByParamType(entry, ty) ==
    IF ty = "Result" THEN {}
    ELSE IF "value_kind" \in DOMAIN entry
         THEN derive_runtime_features_for_value_kind_associated_to_type("Dynamic", ty)
         ELSE derive_intrinsic_runtime_features_from_type(ty)
C20_IntrinsicParamEntry ==
    tb_table.by = "intrinsic" =>
        /\ Len(TbParams(tb_table.table)) = Len(tb_decl.input_params)
        /\ \A n \in 1..Len(tb_decl.input_params) :
              LET entry == TbParams(tb_table.table)[n]
              IN  /\ entry.runtime_features
                        = ImpliedByParamType(entry, tb_decl.input_params[n])
                  /\ TbDynamic(entry) <=> tb_decl.output # "Unit"

(***************************************************************************)
(* Properties of the store's inserts (under SpecStore).                    *)
(***************************************************************************)
\* C8: no insert changes a slot that already holds a value: an item entry
\* keeps its kind, and a specialization, block, statement or expression
\* table, once present, stays what it is.
C8_WriteOnce ==
    [][\A p \in PackageIds :
          /\ \A i \in ItemIds(p) :
                /\ scaffolding[p].items[i].tag # "Vacant"
                      => scaffolding'[p].items[i].tag = scaffolding[p].items[i].tag
                /\ \A k \in SpecKinds :
                      scaffolding[p].items[i].specs[k].tag = "Some"
                         => scaffolding'[p].items[i].specs[k]
                               = scaffolding[p].items[i].specs[k]
          /\ \A b \in BlockIds(p) :
                scaffolding[p].blocks[b].tag = "Some"
                   => scaffolding'[p].blocks[b] = scaffolding[p].blocks[b]
          /\ \A t \in StmtIds(p) :
                /\ scaffolding[p].stmts[t].tag = "Some"
                      => scaffolding'[p].stmts[t] = scaffolding[p].stmts[t]
                /\ scaffolding[p].exprs[t].tag = "Some"
                      => scaffolding'[p].exprs[t] = scaffolding[p].exprs[t]]_vars

(***************************************************************************)
(* Properties of the analysis of one application instance (under SpecAi).  *)
(***************************************************************************)
AiCalls == { id \in DOMAIN ai.exprs : ai.body[id].kind = "Call" }
AiFeatures(id) == ai.exprs[id].runtime_features
ScopeFeatures ==
    {"ForwardBranchingOnDynamicValue", "DynamicQubitAllocation",
     "DynamicResultAllocation"}
\* what a call's compute kind has from the callee's application, the callee
\* expression and the arguments
AiCallOperands(id) ==
    LET callee == ai.exprs[ai.body[id].sub[1]]
        args == ai.exprs[ai.body[id].sub[2]]
    IN  (IF is_dynamic(callee) THEN {} ELSE ai.application.runtime_features)
        \cup callee.runtime_features \cup args.runtime_features

\* C21: a call analyzed while active_dynamic_scopes is not empty has
\* ForwardBranchingOnDynamicValue, and DynamicQubitAllocation if its type is
\* Qubit, and DynamicResultAllocation if its type is Result; a call analyzed
\* with no active scope has none of the three unless its callee's
\* application or its operands carry it.
C21_CallInDynamicScope ==
    \A id \in AiCalls :
        IF ai.left[id] # <<>>
        THEN /\ "ForwardBranchingOnDynamicValue" \in AiFeatures(id)
             /\ ai.body[id].ty = "Qubit" => "DynamicQubitAllocation" \in AiFeatures(id)
             /\ ai.body[id].ty = "Result" => "DynamicResultAllocation" \in AiFeatures(id)
        ELSE AiFeatures(id) \cap ScopeFeatures \subseteq AiCallOperands(id)
C21_Witness ==
    /\ ai.status = "settled"
    /\ \E inner \in AiCalls, outer \in AiCalls :
          /\ ai.left[inner] # <<>> /\ ai.left[outer] = <<>>
          /\ ai.body[inner].ty = "Result"
          /\ "DynamicResultAllocation" \in AiFeatures(inner)
          /\ AiFeatures(outer) \cap ScopeFeatures = {}

AiAssignments ==
    { id \in DOMAIN ai.exprs : ai.body[id].kind \in {"Assign", "AssignIndex"} }
AiAssignee(id) == ai.body[ai.body[id].sub[1]].var
\* the reads of a local analyzed after the expression id was
AiLaterReads(id, var) ==
    { r \in DOMAIN ai.exprs :
        r > id /\ ai.body[r].kind = "Var" /\ ai.body[r].var = var }

\* C22: after an assignment analyzed while active_dynamic_scopes is not
\* empty the assigned local is recorded as dynamic with the features of its
\* type, whatever the assigned value is, and every read of the local
\* analyzed later in the instance is dynamic.
C22_AssignedInScopeIsDynamic ==
    \A id \in AiAssignments :
        ai.left[id] # <<>> =>
            LET local == ai.locals_map[AiAssignee(id)]
            IN  /\ is_dynamic(local.compute_kind)
                /\ derive_runtime_features_for_value_kind_associated_to_type(
                       "Dynamic", local.ty) \subseteq local.compute_kind.runtime_features
                /\ \A r \in AiLaterReads(id, AiAssignee(id)) : is_dynamic(ai.exprs[r])

\* the conditions of the if- and while-expressions whose branches are being
\* visited and whose condition is dynamic, the outermost first
RECURSIVE OpenDynamicScopes(_)
OpenDynamicScopes(work) ==
    IF work = <<>> THEN <<>>
    ELSE LET task == Head(work)
             expr == ai.body[task.id]
             enclosing == OpenDynamicScopes(Tail(work))
         IN  IF /\ task.op = "analyze" /\ expr.kind \in {"If", "While"}
                /\ is_dynamic(ai.exprs[expr.sub[1]])
             THEN Append(enclosing, expr.sub[1])
             ELSE enclosing

\* C26: active_dynamic_scopes is balanced. It holds exactly the dynamic
\* conditions of the if- and while-expressions being visited, so a condition
\* is pushed iff it is dynamic and the element popped is that condition (no
\* assertion fails); the stack when visit_expr returns is the stack when it
\* was entered; and the stack is empty when the instance is settled.
C26_DynamicScopesBalanced ==
    /\ ai.status # "assert"
    /\ ai.status = "visiting" => ai.active_dynamic_scopes = OpenDynamicScopes(ai.work)
    /\ \A id \in DOMAIN ai.left : ai.left[id] = ai.entered[id]
    /\ ai.status = "settled" => ai.active_dynamic_scopes = <<>>
C26_Witness ==
    /\ ai.status = "settled"
    /\ ai.active_dynamic_scopes = <<>>
    /\ \E id \in DOMAIN ai.left :
          /\ ai.body[id].kind = "Call"
          /\ ai.entered[id] = <<1, 2>> /\ ai.left[id] = <<1, 2>>
====
